---- MODULE Spec2Model ----
(***************************************************************************)
(* A model of the TSL ".ang" orientation map reader (tsl.hpp, mmap.hpp).   *)
(*                                                                         *)
(* Three specifications share the operators below:                        *)
(*   Spec        whole read(fileName) calls on one OrientationMap          *)
(*   SpecHeader  readAngHeader, one header line per step                   *)
(*   SpecDecode  readAngData and readAngDataMemMap, one loop iteration per *)
(*               step, run on the same data section                        *)
(*                                                                         *)
(* Bytes are one-character strings.  Header lines are kept as (key, value) *)
(* pairs, the data section as a sequence of bytes.                         *)
(***************************************************************************)
EXTENDS Integers, Sequences, FiniteSets, TLC

----------------------------------------------------------------------------
(* Bounds *)

\* size_t is modelled as an unsigned integer of SizeBits bits
SizeBits == 6
SizeMod == 2 ^ SizeBits

\* nColsOdd, nColsEven and nRows of the input files range over 0..MaxDim
MaxDim == 2

\* the data sections whose length varies have up to MaxLines lines
MaxLines == 3

\* number of read() calls made on one OrientationMap
MaxReads == 2

\* number of phase blocks in the header inputs
MaxPhases == 2

\* byte offset of the data section in the files given to the decoders alone
DecodeOffset == 3

\* "char line[512]": the size of the buffer a line is read into, scaled down
\* to the lines of the model, whose regular lines are shorter
LineSize == 24

\* file sizes, and the size argument of memorymap::File, range over 0..MaxBytes
MaxBytes == 2

\* CanRead is tried on every file name of up to MaxName characters
MaxName == 4

----------------------------------------------------------------------------
(* Bytes, and the C library's number parsing *)

NUL == "NUL"
FAULT == "FAULT"
SP == " "
NL == "\n"
CR == "\r"

Digits == {"0", "1", "2", "3", "4", "5", "6", "7", "8", "9"}

DigitChars == <<"0", "1", "2", "3", "4", "5", "6", "7", "8", "9">>

DigitVal(c) == CHOOSE v \in 0..9 : DigitChars[v + 1] = c

isspace(c) == c \in {SP, NL, CR}

\* the byte at offset p of the memory m; an address outside m is not mapped
At(m, p) == IF p < Len(m) THEN m[p + 1] ELSE FAULT

RECURSIVE SkipSpace(_, _)
SkipSpace(m, p) == IF isspace(At(m, p)) THEN SkipSpace(m, p + 1) ELSE p

RECURSIVE ScanDigits(_, _, _)
ScanDigits(m, p, acc) ==
    IF At(m, p) \in Digits
    THEN ScanDigits(m, p + 1, 10 * acc + DigitVal(At(m, p)))
    ELSE [end |-> p, val |-> acc]

\* strtof(nptr, &endptr): leading white space is skipped; without a number
\* the result is 0 and endptr is nptr.  last is the last address read.
strtof(m, p) ==
    LET q == SkipSpace(m, p)
        r == ScanDigits(m, q, 0)
    IN  [val  |-> IF r.end = q THEN 0 ELSE r.val,
         end  |-> IF r.end = q THEN p ELSE r.end,
         last |-> r.end]

\* std::strtoul(nptr, &endptr, 10)
strtoul(m, p) ==
    LET q == SkipSpace(m, p)
        r == ScanDigits(m, q, 0)
    IN  [val  |-> IF r.end = q THEN 0 ELSE r.val % SizeMod,
         end  |-> IF r.end = q THEN p ELSE r.end,
         last |-> r.end]

Max(a, b) == IF a >= b THEN a ELSE b

----------------------------------------------------------------------------
(* OrientationMap: construction and allocate *)

\* the scalar members the constructor leaves without a value
Indeterminate == {0, 1}

\* OrientationMap::OrientationMap(): only gridType is initialised; the
\* vectors and strings are empty, the numeric members hold whatever u is
OrientationMap(u) ==
    [pixPerUm |-> u, xStar |-> u, yStar |-> u, zStar |-> u,
     workingDistance |-> u, xStep |-> u, yStep |-> u,
     nColsOdd |-> u, nColsEven |-> u, nRows |-> u,
     operatorName |-> "", sampleId |-> "", scanId |-> "",
     gridType |-> "Unknown",
     phaseList |-> <<>>,
     eu |-> <<>>, x |-> <<>>, y |-> <<>>, iq |-> <<>>, ci |-> <<>>,
     sem |-> <<>>, fit |-> <<>>, phase |-> <<>>]

\* std::vector::resize(n): the first elements are kept, new ones are zero
resize(v, n) == [k \in 1..n |-> IF k <= Len(v) THEN v[k] ELSE 0]

\* the pixel count computed by allocate from the grid type and dimensions
totalPointsOf(o) ==
    IF o.gridType = "Square"
    THEN (Max(o.nColsOdd, o.nColsEven) * o.nRows) % SizeMod
    ELSE LET t == ((o.nRows \div 2) * ((o.nColsOdd + o.nColsEven) % SizeMod)) % SizeMod
         IN  IF o.nRows % 2 = 1 THEN (t + o.nColsOdd) % SizeMod ELSE t

\* allocate, were sem to be resized only from ten tokens on
allocateSemFromTen(o, tokenCount) ==
    IF o.gridType \notin {"Square", "Hexagonal"}
    THEN [o |-> o, err |-> "only Square and Hexagonal grid types are supported"]
    ELSE LET totalPoints == totalPointsOf(o)
         IN  [o |-> [o EXCEPT
                       !.eu    = resize(@, (3 * totalPoints) % SizeMod),
                       !.x     = resize(@, totalPoints),
                       !.y     = resize(@, totalPoints),
                       !.iq    = resize(@, totalPoints),
                       !.ci    = resize(@, totalPoints),
                       !.phase = resize(@, totalPoints),
                       !.sem   = IF tokenCount > 9 THEN resize(@, totalPoints) ELSE @,
                       !.fit   = IF tokenCount > 9 THEN resize(@, totalPoints) ELSE @],
              err |-> "none"]

\* OrientationMap::allocate(tokenCount)
allocate(o, tokenCount) ==
    IF o.gridType \notin {"Square", "Hexagonal"}
    THEN [o |-> o, err |-> "only Square and Hexagonal grid types are supported"]
    ELSE LET totalPoints == totalPointsOf(o)
         IN  [o |-> [o EXCEPT
                       !.eu    = resize(@, (3 * totalPoints) % SizeMod),
                       !.x     = resize(@, totalPoints),
                       !.y     = resize(@, totalPoints),
                       !.iq    = resize(@, totalPoints),
                       !.ci    = resize(@, totalPoints),
                       !.phase = resize(@, totalPoints),
                       !.sem   = IF tokenCount > 8 THEN resize(@, totalPoints) ELSE @,
                       !.fit   = IF tokenCount > 9 THEN resize(@, totalPoints) ELSE @],
              err |-> "none"]

----------------------------------------------------------------------------
(* The point decoders *)

\* v[i] = val for a std::vector: an index outside the vector is undefined
\* behaviour, and leaves the vector itself as it was
Put(v, i, val) == IF i < Len(v) THEN [v EXCEPT ![i + 1] = val] ELSE v

InRange(v, i) == i < Len(v)

\* the values of one record scattered into the arrays at index i
Scatter(o, i, f, readSem, readFit) ==
    LET e0 == (3 * i) % SizeMod
        e1 == (e0 + 1) % SizeMod
        e2 == (e0 + 2) % SizeMod
    IN  [o EXCEPT
           !.eu    = Put(Put(Put(@, e0, f[1]), e1, f[2]), e2, f[3]),
           !.x     = Put(@, i, f[4]),
           !.y     = Put(@, i, f[5]),
           !.iq    = Put(@, i, f[6]),
           !.ci    = Put(@, i, f[7]),
           !.phase = Put(@, i, f[8]),
           !.sem   = IF readSem THEN Put(@, i, f[9]) ELSE @,
           !.fit   = IF readSem /\ readFit THEN Put(@, i, f[10]) ELSE @]

\* some write of Scatter lands outside its vector
ScatterOutside(o, i, readSem, readFit) ==
    LET e0 == (3 * i) % SizeMod
    IN  \/ ~InRange(o.eu, e0)
        \/ ~InRange(o.eu, (e0 + 1) % SizeMod)
        \/ ~InRange(o.eu, (e0 + 2) % SizeMod)
        \/ ~InRange(o.x, i) \/ ~InRange(o.y, i)
        \/ ~InRange(o.iq, i) \/ ~InRange(o.ci, i) \/ ~InRange(o.phase, i)
        \/ (readSem /\ ~InRange(o.sem, i))
        \/ (readSem /\ readFit /\ ~InRange(o.fit, i))

\* the row traversal, were the widths of the even and odd rows exchanged
NextPointExchanged(o, d) ==
    IF d.currentCol = 0
    THEN LET width   == IF d.evenRow THEN o.nColsOdd ELSE o.nColsEven
             evenRow == ~d.evenRow
         IN  [d EXCEPT
                !.completeRowPoints = (@ + width) % SizeMod,
                !.evenRow           = evenRow,
                !.currentCol        = ((IF evenRow THEN o.nColsOdd ELSE o.nColsEven)
                                        + SizeMod - 1) % SizeMod]
    ELSE [d EXCEPT !.currentCol = @ - 1]

\* "if(0 == currentCol--) {...}": the row traversal shared by both decoders
NextPoint(o, d) ==
    IF d.currentCol = 0
    THEN LET width   == IF d.evenRow THEN o.nColsEven ELSE o.nColsOdd
             evenRow == ~d.evenRow
         IN  [d EXCEPT
                !.completeRowPoints = (@ + width) % SizeMod,
                !.evenRow           = evenRow,
                !.currentCol        = ((IF evenRow THEN o.nColsEven ELSE o.nColsOdd)
                                        + SizeMod - 1) % SizeMod]
    ELSE [d EXCEPT !.currentCol = @ - 1]

\* fields k..n of a record, parsed one after the other from cursor p: the
\* phase index (field 8) by strtoul, every other field by strtof.  Each
\* entry keeps the cursor the call started from.
RECURSIVE ParseFields(_, _, _, _)
ParseFields(m, p, k, n) ==
    IF k > n THEN <<>>
    ELSE LET r == IF k = 8 THEN strtoul(m, p) ELSE strtof(m, p)
         IN  <<[cur |-> p, val |-> r.val, end |-> r.end, last |-> r.last]>>
             \o ParseFields(m, r.end, k + 1, n)

\* the values of the parsed fields, zero for the optional ones left out
Values(fs) == [k \in 1..10 |-> IF k <= Len(fs) THEN fs[k].val ELSE 0]

\* "while('\n' != *data) ++data"
RECURSIVE SkipLine(_, _)
SkipLine(m, p) == IF At(m, p) \in {NL, FAULT} THEN p ELSE SkipLine(m, p + 1)

\* the fields of one record, were the fields after the tenth not skipped
MemMapFieldsNoSkip(m, p, readSem, readFit, extraTok) ==
    LET n  == IF ~readSem THEN 8 ELSE IF ~readFit THEN 9 ELSE 10
        fs == ParseFields(m, p, 1, n)
    IN  [val |-> Values(fs), end |-> fs[n].end, reads |-> fs]

\* the fields of one record as the memory mapped decoder parses them: the
\* values, the cursor after the record, and the reads made on the way
MemMapFields(m, p, readSem, readFit, extraTok) ==
    LET n   == IF ~readSem THEN 8 ELSE IF ~readFit THEN 9 ELSE 10
        fs  == ParseFields(m, p, 1, n)
        eol == SkipLine(m, fs[n].end)
    IN  IF readSem /\ readFit /\ extraTok
        THEN [val |-> Values(fs), end |-> eol,
              reads |-> Append(fs, [cur |-> eol, val |-> 0, end |-> eol, last |-> eol])]
        ELSE [val |-> Values(fs), end |-> fs[n].end, reads |-> fs]

\* the reads that touch an address that is not mapped
Faults(m, reads) == {k \in DOMAIN reads : At(m, reads[k].last) = FAULT}

\* the largest address read
LastRead(reads) ==
    CHOOSE a \in {reads[k].last : k \in DOMAIN reads} :
        \A k \in DOMAIN reads : reads[k].last <= a

Min(S) == CHOOSE a \in S : \A b \in S : a <= b

\* the locals of readAngDataMemMap before its loop; data is the cursor as an
\* offset from the start of the data section, which is at byte offset of the
\* mapping.  idx and starts record the index and the cursor of each record.
MemMapStart(o, offset, fileBytes, tokens) ==
    [evenRow |-> TRUE, pointsRead |-> 0, completeRowPoints |-> 0,
     currentCol |-> (o.nColsEven + SizeMod - 1) % SizeMod,
     totalPoints |-> Len(o.iq),
     offset |-> offset, fileBytes |-> fileBytes, bytesRead |-> offset + 1,
     data |-> 0, tokens |-> tokens,
     idx |-> <<>>, starts |-> <<>>, status |-> "run"]

\* the guard of the loop, were the point count not part of it
MemMapGuardBytesOnly(d) == d.status = "run" /\ d.bytesRead < d.fileBytes

MemMapGuard(d) ==
    d.status = "run" /\ d.pointsRead < d.totalPoints /\ d.bytesRead < d.fileBytes

\* one iteration of the loop of readAngDataMemMap on s = [o, d].  mem is the
\* data section followed by the memory after the mapping: a read outside mem
\* ends the process, and so does an out-of-range vector write when ub says so
MemMapIter(s, mem, ub) ==
    LET o == s.o
        d == s.d
        readSem  == d.tokens > 8
        readFit  == d.tokens > 9
        extraTok == d.tokens > 10
        i == (d.completeRowPoints + d.currentCol) % SizeMod
        f == MemMapFields(mem, d.data, readSem, readFit, extraTok)
        bad == Faults(mem, f.reads)
        outside == ScatterOutside(o, i, readSem, readFit)
        d1 == [d EXCEPT !.idx = Append(@, i), !.starts = Append(@, d.data)]
    IN  IF outside /\ ub = "crash"
        THEN [o |-> o, d |-> [d1 EXCEPT !.status = "crash"]]
        ELSE IF bad # {}
        THEN [o |-> o, d |-> [d1 EXCEPT !.status = "crash",
                                        !.data = f.reads[Min(bad)].cur]]
        ELSE [o |-> Scatter(o, i, f.val, readSem, readFit),
              d |-> NextPoint(o, [d1 EXCEPT
                                    !.data = f.end,
                                    !.bytesRead = @ + (f.end - d.data),
                                    !.pointsRead = @ + 1])]

\* the iteration reads the byte that follows the last byte of the data
\* section bytes, or bytes after it
ReadsPastEnd(s, bytes) ==
    LastRead(MemMapFields(bytes, s.d.data, s.d.tokens > 8, s.d.tokens > 9,
                          s.d.tokens > 10).reads) >= Len(bytes)

\* the iteration writes outside a vector
WritesOutside(s) ==
    ScatterOutside(s.o, (s.d.completeRowPoints + s.d.currentCol) % SizeMod,
                   s.d.tokens > 8, s.d.tokens > 9)

RECURSIVE MemMapLoop(_, _, _)
MemMapLoop(s, mem, ub) ==
    IF MemMapGuard(s.d) THEN MemMapLoop(MemMapIter(s, mem, ub), mem, ub) ELSE s

\* std::istream::getline(line, sizeof(line)) on the bytes from pos: the line
\* without its '\n', and the position after it.  It fails when nothing is
\* left to extract, and when LineSize - 1 characters were stored before the
\* end of the line: line then holds those characters
getline(bytes, pos) ==
    LET eol  == SkipLine(bytes, pos)
        long == eol - pos >= LineSize
    IN  [ok   |-> pos < Len(bytes) /\ ~long,
         line |-> SubSeq(bytes, pos + 1, IF long THEN pos + LineSize - 1 ELSE eol),
         pos  |-> IF long THEN pos + LineSize - 1
                  ELSE IF eol < Len(bytes) THEN eol + 1 ELSE eol]

\* the fields of one record as the stream decoder parses them from line
StreamFields(line, readSem, readFit) ==
    LET n == IF ~readSem THEN 8 ELSE IF ~readFit THEN 9 ELSE 10
    IN  Values(ParseFields(line \o <<NUL>>, 0, 1, n))

\* the locals of readAngData before its loop; pos is the stream position as
\* an offset from the start of the data section
StreamStart(o, tokens) ==
    [evenRow |-> TRUE, pointsRead |-> 0, completeRowPoints |-> 0,
     currentCol |-> (o.nColsEven + SizeMod - 1) % SizeMod,
     totalPoints |-> Len(o.iq),
     pos |-> 0, tokens |-> tokens,
     idx |-> <<>>, starts |-> <<>>, status |-> "run"]

StreamGuard(d) == d.status = "run" /\ d.pointsRead < d.totalPoints

\* one iteration of the loop of readAngData on s = [o, d]
StreamIter(s, bytes, ub) ==
    LET o == s.o
        d == s.d
        readSem == d.tokens > 8
        readFit == d.tokens > 9
        g == getline(bytes, d.pos)
        i == (d.completeRowPoints + d.currentCol) % SizeMod
        f == StreamFields(g.line, readSem, readFit)
        outside == ScatterOutside(o, i, readSem, readFit)
        d1 == [d EXCEPT !.idx = Append(@, i), !.starts = Append(@, d.pos)]
    IN  IF ~g.ok THEN [o |-> o, d |-> [d EXCEPT !.status = "eof"]]
        ELSE IF outside /\ ub = "crash"
        THEN [o |-> o, d |-> [d1 EXCEPT !.status = "crash"]]
        ELSE [o |-> Scatter(o, i, f, readSem, readFit),
              d |-> NextPoint(o, [d1 EXCEPT !.pos = g.pos, !.pointsRead = @ + 1])]

RECURSIVE StreamLoop(_, _, _)
StreamLoop(s, bytes, ub) ==
    IF StreamGuard(s.d) THEN StreamLoop(StreamIter(s, bytes, ub), bytes, ub) ELSE s

\* "while(iss >> token) tokenCount++" on the bytes of a line
RECURSIVE CountTokens(_, _, _)
CountTokens(m, p, inToken) ==
    IF p >= Len(m) THEN 0
    ELSE IF isspace(m[p + 1]) THEN CountTokens(m, p + 1, FALSE)
    ELSE (IF inToken THEN 0 ELSE 1) + CountTokens(m, p + 1, TRUE)

\* the number of tokens of the first data line
FirstLineTokens(bytes) == CountTokens(getline(bytes, 0).line, 0, FALSE)

----------------------------------------------------------------------------
(* readAngHeader *)

\* the value of a header line is the sequence of the tokens after its key:
\* a token is a number n or a text s.  NoVal is a line without a value.
NoVal == <<>>
Number(n) == [num |-> TRUE, n |-> n, s |-> ""]
Text(s) == [num |-> FALSE, n |-> 0, s |-> s]

\* "iss >> x" for a number and for a string: text that is no number is
\* stored as zero
NumVal(v) == IF v = NoVal \/ ~v[1].num THEN 0 ELSE v[1].n
StrVal(v) == IF v = NoVal THEN "" ELSE v[1].s

\* the grid type read, were every name but HexGrid taken for a square grid
ReadGridTypeSquareElse(v) ==
    IF StrVal(v) = "HexGrid" THEN "Hexagonal" ELSE "Square"

\* operator>>(std::istream&, GridType&)
ReadGridType(v) ==
    IF StrVal(v) = "SqrGrid" THEN "Square"
    ELSE IF StrVal(v) = "HexGrid" THEN "Hexagonal"
    ELSE "Unknown"

\* what a call throws: the text of the message and the values put into it
NoError == [msg |-> "none", arg |-> <<>>]
Crash == [msg |-> "terminated by undefined behaviour", arg |-> <<>>]
Error(msg, arg) == [msg |-> msg, arg |-> arg]
Named(name) == <<Text(name)>>
Counted(n) == <<Number(n)>>
Failed(e) == e.msg # "none"
Crashed(e) == e.msg = Crash.msg

\* the top level keys, in the order of the chain of comparisons: the token,
\* the member it is read into and the flag it sets
HeaderKeys ==
    <<[key |-> "TEM_PIXperUM",    field |-> "pixPerUm",        flag |-> "readPixPerUm",        type |-> "num"],
      [key |-> "x-star",          field |-> "xStar",           flag |-> "readXStar",           type |-> "num"],
      [key |-> "y-star",          field |-> "yStar",           flag |-> "readYStar",           type |-> "num"],
      [key |-> "z-star",          field |-> "zStar",           flag |-> "readZStar",           type |-> "num"],
      [key |-> "WorkingDistance", field |-> "workingDistance", flag |-> "readWorkingDistance", type |-> "num"],
      [key |-> "GRID:",           field |-> "gridType",        flag |-> "readGridType",        type |-> "grid"],
      [key |-> "XSTEP:",          field |-> "xStep",           flag |-> "readXStep",           type |-> "num"],
      [key |-> "YSTEP:",          field |-> "yStep",           flag |-> "readYStep",           type |-> "num"],
      [key |-> "NCOLS_ODD:",      field |-> "nColsOdd",        flag |-> "readColsOdd",         type |-> "num"],
      [key |-> "NCOLS_EVEN:",     field |-> "nColsEven",       flag |-> "readColsEven",        type |-> "num"],
      [key |-> "NROWS:",          field |-> "nRows",           flag |-> "readRows",            type |-> "num"],
      [key |-> "OPERATOR:",       field |-> "operatorName",    flag |-> "readOperatorName",    type |-> "str"],
      [key |-> "SAMPLEID:",       field |-> "sampleId",        flag |-> "readSampleId",        type |-> "str"],
      [key |-> "SCANID:",         field |-> "scanId",          flag |-> "readScanId",          type |-> "str"]>>

TopLevelKeys == {HeaderKeys[k].key : k \in DOMAIN HeaderKeys}

\* the phase sub-keys that set a member of the last phase and a flag
PhaseKeys ==
    <<[key |-> "MaterialName",     field |-> "name", flag |-> "readPhaseMaterial", type |-> "str"],
      [key |-> "Formula",          field |-> "form", flag |-> "readPhaseFormula",  type |-> "str"],
      [key |-> "Info",             field |-> "info", flag |-> "readPhaseInfo",     type |-> "str"],
      [key |-> "Symmetry",         field |-> "sym",  flag |-> "readPhaseSymmetry", type |-> "num"],
      [key |-> "LatticeConstants", field |-> "lat",  flag |-> "readPhaseLattice",  type |-> "num"]>>

SimplePhaseKeys == {PhaseKeys[k].key : k \in DOMAIN PhaseKeys}

\* "0 == token.compare(0, 10, "Categories")": the tokens that start with it
CategoriesTokens == {"Categories", "Categories0"}

\* the sub-keys, were VERSION one of the tokens taken for Categories
SubKeysAndVersion ==
    SimplePhaseKeys \cup CategoriesTokens \cup {"VERSION"}
        \cup {"NumberFamilies", "hklFamilies", "ElasticConstants"}

\* the tokens the chain of comparisons takes for a sub-key of a phase; any
\* other token that is no top level key and not Phase reaches the final else
SubKeys ==
    SimplePhaseKeys \cup CategoriesTokens
        \cup {"NumberFamilies", "hklFamilies", "ElasticConstants"}

\* "iss >> member" on the value v of a line, the member holding old: with
\* nothing left on the line the extraction fails before it stores anything,
\* and a number or a string keeps what it held
Extract(type, v, old) ==
    IF type = "grid" THEN ReadGridType(v)
    ELSE IF v = NoVal THEN old
    ELSE IF type = "num" THEN NumVal(v)
    ELSE StrVal(v)

\* the flags of readAngHeader as it declares them
HeaderFlags ==
    [readPixPerUm |-> FALSE, readXStar |-> FALSE, readYStar |-> FALSE,
     readZStar |-> FALSE, readWorkingDistance |-> FALSE,
     readXStep |-> FALSE, readYStep |-> FALSE,
     readColsOdd |-> FALSE, readColsEven |-> FALSE, readRows |-> FALSE,
     readOperatorName |-> FALSE, readSampleId |-> FALSE, readScanId |-> FALSE,
     readGridType |-> FALSE,
     readPhaseSymmetry |-> TRUE, targetFamilies |-> 0,
     readPhaseMaterial |-> TRUE, readPhaseFormula |-> TRUE,
     readPhaseInfo |-> TRUE, readPhaseLattice |-> TRUE,
     readPhaseHkl |-> TRUE, phaseElasticCount |-> 6,
     readPhaseCategories |-> TRUE]

\* a Phase as phaseList.resize() creates it
BlankPhase ==
    [num |-> 0, name |-> "", form |-> "", info |-> "", sym |-> 0, lat |-> 0,
     hklFam |-> <<>>, el |-> [r \in 1..6 |-> 0], cats |-> <<>>]

\* the first of the checks that fails, as <<message, flag>> pairs in order
FirstFailure(checks, h) ==
    LET failing == {k \in DOMAIN checks : ~h[checks[k].flag]}
    IN  IF failing = {} THEN "none" ELSE checks[Min(failing)].msg

\* the family count check made at a Phase key and at the end of the header
SurplusFamilies(o, h) ==
    /\ o.phaseList # <<>>
    /\ h.targetFamilies < Len(o.phaseList[Len(o.phaseList)].hklFam)

\* the flags tested when a Phase key is read, in order, with the start of
\* the message each one throws; phaseElasticCount stands for "6 == count"
PhaseKeyFlags ==
    <<[flag |-> "readPhaseMaterial",   msg |-> "ang missing material name for phase"],
      [flag |-> "readPhaseFormula",    msg |-> "ang missing formula for phase"],
      [flag |-> "readPhaseInfo",       msg |-> "ang missing info for phase"],
      [flag |-> "readPhaseSymmetry",   msg |-> "ang missing symmetry for phase"],
      [flag |-> "readPhaseLattice",    msg |-> "ang missing lattice constants for phase"],
      [flag |-> "readPhaseHkl",        msg |-> "ang missing hkl families for phase"],
      [flag |-> "phaseElasticCount",   msg |-> "ang missing elastic constants for phase"],
      [flag |-> "readPhaseCategories", msg |-> "ang missing categories for phase"]>>

\* the flags tested after the last header line: the tests of the elastic
\* constants and of the categories are commented out there
FinalPhaseFlags ==
    <<[flag |-> "readPhaseMaterial",   msg |-> "ang missing material name for phase"],
      [flag |-> "readPhaseFormula",    msg |-> "ang missing formula for phase"],
      [flag |-> "readPhaseInfo",       msg |-> "ang missing info for phase"],
      [flag |-> "readPhaseSymmetry",   msg |-> "ang missing symmetry for phase"],
      [flag |-> "readPhaseLattice",    msg |-> "ang missing lattice constants for phase"],
      [flag |-> "readPhaseHkl",        msg |-> "ang missing hkl families for phase"]>>

\* a run of phase checks: the first flag of checks that is not set throws its
\* message, then the family count does; the message ends with the number n
CheckPhase(o, h, checks, n) ==
    LET flags == [h EXCEPT !.phaseElasticCount = (h.phaseElasticCount = 6)]
        f == FirstFailure(checks, flags)
    IN  IF f # "none" THEN Error(f, Counted(n))
        ELSE IF SurplusFamilies(o, h)
        THEN Error("ang missing some hkl families for phase", Counted(n))
        ELSE NoError

\* the checks at a Phase key, were they to number the phases from zero
PhaseKeyChecksFromZero(o, h) ==
    CheckPhase(o, h, PhaseKeyFlags, Len(o.phaseList) - 1)

\* the checks of the previous phase made when a Phase key is read: the
\* message ends with std::to_string(phaseList.size())
PhaseKeyChecks(o, h) == CheckPhase(o, h, PhaseKeyFlags, Len(o.phaseList))

\* the checks after the last header line, were the formula not among them
FinalPhaseChecksNoFormula(o, h) ==
    CheckPhase(o, h, SelectSeq(FinalPhaseFlags, LAMBDA c : c.flag # "readPhaseFormula"),
               Len(o.phaseList))

\* the checks of the final phase made after the last header line
FinalPhaseChecks(o, h) == CheckPhase(o, h, FinalPhaseFlags, Len(o.phaseList))

\* the table of header values, were the y-star entry to repeat the x-star one
HeaderChecksRepeated ==
    <<[flag |-> "readPixPerUm",        msg |-> "TEM_PIXperUM"],
      [flag |-> "readXStar",           msg |-> "x-star"],
      [flag |-> "readXStar",           msg |-> "x-star"],
      [flag |-> "readZStar",           msg |-> "z-star"],
      [flag |-> "readWorkingDistance", msg |-> "WorkingDistance"],
      [flag |-> "readGridType",        msg |-> "GRID"],
      [flag |-> "readXStep",           msg |-> "XSTEP"],
      [flag |-> "readYStep",           msg |-> "YSTEP"],
      [flag |-> "readColsOdd",         msg |-> "NCOLS_ODD"],
      [flag |-> "readColsEven",        msg |-> "NCOLS_EVEN"],
      [flag |-> "readRows",            msg |-> "NROWS"],
      [flag |-> "readOperatorName",    msg |-> "OPERATOR"],
      [flag |-> "readSampleId",        msg |-> "SAMPLEID"],
      [flag |-> "readScanId",          msg |-> "SCANID"]>>

\* "make sure all header values were read": the flags in the order tested,
\* with the name each error message gives
HeaderChecks ==
    <<[flag |-> "readPixPerUm",        msg |-> "TEM_PIXperUM"],
      [flag |-> "readXStar",           msg |-> "x-star"],
      [flag |-> "readYStar",           msg |-> "y-star"],
      [flag |-> "readZStar",           msg |-> "z-star"],
      [flag |-> "readWorkingDistance", msg |-> "WorkingDistance"],
      [flag |-> "readGridType",        msg |-> "GRID"],
      [flag |-> "readXStep",           msg |-> "XSTEP"],
      [flag |-> "readYStep",           msg |-> "YSTEP"],
      [flag |-> "readColsOdd",         msg |-> "NCOLS_ODD"],
      [flag |-> "readColsEven",        msg |-> "NCOLS_EVEN"],
      [flag |-> "readRows",            msg |-> "NROWS"],
      [flag |-> "readOperatorName",    msg |-> "OPERATOR"],
      [flag |-> "readSampleId",        msg |-> "SAMPLEID"],
      [flag |-> "readScanId",          msg |-> "SCANID"]>>

MissingValue(h) ==
    LET f == FirstFailure(HeaderChecks, h)
    IN  IF f = "none" THEN NoError ELSE Error("missing ang header value", Named(f))

\* phaseList.back(), and the map with ph put in its place
Back(o) == o.phaseList[Len(o.phaseList)]
SetBack(o, ph) == [o EXCEPT !.phaseList[Len(o.phaseList)] = ph]

\* the body of the header loop for one line [key, val], on s = [o, h, err].
\* phaseList.back() of an empty list and a seventh row of elastic constants
\* are undefined behaviour: the process ends, or goes on with the phases as
\* they were, as ub says
HeaderLine(s, line, ub) ==
    LET o == s.o
        h == s.h
        key == line.key
        top == {k \in DOMAIN HeaderKeys : HeaderKeys[k].key = key}
        sub == {k \in DOMAIN PhaseKeys : PhaseKeys[k].key = key}
        noPhase == o.phaseList = <<>>
    IN  IF key = "" THEN s
        ELSE IF top # {}
        THEN LET e == HeaderKeys[Min(top)]
             IN  [s EXCEPT !.o = [o EXCEPT ![e.field] = Extract(e.type, line.val, o[e.field])],
                           !.h = [h EXCEPT ![e.flag] = TRUE]]
        ELSE IF key = "Phase"
        THEN LET c == PhaseKeyChecks(o, h)
             IN  IF Failed(c) THEN [s EXCEPT !.err = c]
                 ELSE [s EXCEPT
                         !.o = [o EXCEPT !.phaseList =
                                  Append(@, [BlankPhase EXCEPT !.num = NumVal(line.val)])],
                         !.h = [h EXCEPT
                                  !.targetFamilies = 0, !.phaseElasticCount = 0,
                                  !.readPhaseSymmetry = FALSE, !.readPhaseMaterial = FALSE,
                                  !.readPhaseFormula = FALSE, !.readPhaseInfo = FALSE,
                                  !.readPhaseLattice = FALSE, !.readPhaseHkl = FALSE,
                                  !.readPhaseCategories = FALSE]]
        ELSE IF key \notin SubKeys
        THEN [s EXCEPT !.err = Error("unknown ang header keyword", Named(key))]
        ELSE IF noPhase /\ ub = "crash" THEN [s EXCEPT !.err = Crash]
        ELSE IF sub # {}
        THEN LET e == PhaseKeys[Min(sub)]
                 set(ph) == [ph EXCEPT ![e.field] = Extract(e.type, line.val, ph[e.field])]
             IN  [s EXCEPT !.o = IF noPhase THEN o ELSE SetBack(o, set(Back(o))),
                           !.h = [h EXCEPT ![e.flag] = TRUE]]
        ELSE IF key = "NumberFamilies"
        THEN [s EXCEPT !.h = [h EXCEPT !.targetFamilies = NumVal(line.val),
                                       !.readPhaseHkl = TRUE]]
        ELSE IF key = "hklFamilies"
        THEN LET add(ph) == [ph EXCEPT !.hklFam = Append(@, NumVal(line.val))]
             IN  [s EXCEPT !.o = IF noPhase THEN o ELSE SetBack(o, add(Back(o)))]
        ELSE IF key = "ElasticConstants"
        THEN LET row == h.phaseElasticCount
                 put(ph) == [ph EXCEPT !.el[row + 1] = NumVal(line.val)]
             IN  IF row >= 6 /\ ub = "crash" THEN [s EXCEPT !.err = Crash]
                 ELSE [s EXCEPT
                         !.o = IF noPhase \/ row >= 6 THEN o ELSE SetBack(o, put(Back(o))),
                         !.h = [h EXCEPT !.phaseElasticCount = (row + 1) % SizeMod]]
        ELSE LET cat(ph) == [ph EXCEPT !.cats = @ \o [k \in DOMAIN line.val |-> line.val[k].n]]
             IN  [s EXCEPT !.o = IF noPhase THEN o ELSE SetBack(o, cat(Back(o))),
                           !.h = [h EXCEPT !.readPhaseCategories = TRUE]]

\* the line steps outside the objects it may write: undefined behaviour
LineUndefined(s, line) ==
    \/ /\ s.o.phaseList = <<>>
       /\ line.key \in SubKeys
    \/ line.key = "ElasticConstants" /\ s.h.phaseElasticCount >= 6

\* readAngHeader before its loop
HeaderStart(o) ==
    [o |-> o, h |-> HeaderFlags, err |-> NoError, tokenCount |-> 0, tellg |-> 0]

\* the header loop from line k on
RECURSIVE HeaderLoop(_, _, _, _)
HeaderLoop(s, lines, k, ub) ==
    IF k > Len(lines) \/ Failed(s.err) THEN s
    ELSE HeaderLoop(HeaderLine(s, lines[k], ub), lines, k + 1, ub)

\* the bytes of the header lines: the offset of the first line without '#'
HeaderBytes(f) == 2 * Len(f.hdr)

\* readAngHeader after its loop: the final phase, the top level values, and
\* the tokens of the first data line, the stream being at offset start.
\* "start = is.tellg(); is.getline(line, sizeof(line)); is.seekg(start)": a
\* getline that extracts nothing, or fills the buffer before the end of the
\* line, sets failbit; seekg then does nothing and the is.tellg() that
\* follows in readAng returns -1
HeaderEnd(s, bytes, start) ==
    LET c == FinalPhaseChecks(s.o, s.h)
        m == MissingValue(s.h)
        tokenCount == FirstLineTokens(bytes)
    IN  IF Failed(c) THEN [s EXCEPT !.err = c]
        ELSE IF Failed(m) THEN [s EXCEPT !.err = m]
        ELSE IF tokenCount < 8
        THEN [s EXCEPT !.err = Error("unexpected number of ang values per point", Counted(tokenCount))]
        ELSE [s EXCEPT !.tokenCount = tokenCount,
                        !.tellg = IF getline(bytes, 0).ok THEN start ELSE -1]

\* OrientationMap::readAngHeader on the header lines and data bytes of f
readAngHeader(o, f, ub) ==
    LET s == HeaderLoop(HeaderStart(o), f.hdr, 1, ub)
    IN  IF Failed(s.err) THEN s ELSE HeaderEnd(s, f.data, HeaderBytes(f))

----------------------------------------------------------------------------
(* read, readAng and getFileType *)

\* std::tolower on the letters file names are made of
tolower(c) ==
    CASE c = "A" -> "a" [] c = "N" -> "n" [] c = "G" -> "g"
      [] c = "H" -> "h" [] c = "D" -> "d" [] c = "F" -> "f"
      [] OTHER -> c

\* fileName.find_last_of("."): the 1-based position of the last '.', or 0
FindLastDot(fileName) ==
    LET dots == {k \in DOMAIN fileName : fileName[k] = "."}
    IN  IF dots = {} THEN 0 ELSE CHOOSE k \in dots : \A j \in dots : j <= k

\* getFileType without the conversion to lower case
getFileTypeAsWritten(fileName) ==
    LET pos == FindLastDot(fileName)
        ext == SubSeq(fileName, pos + 1, Len(fileName))
    IN  IF pos = 0 THEN "Unknown"
        ELSE IF ext = <<"a", "n", "g">> THEN "Ang"
        ELSE "Unknown"

\* getFileType(fileName), a file name being a sequence of characters
getFileType(fileName) ==
    LET pos == FindLastDot(fileName)
        sub == SubSeq(fileName, pos + 1, Len(fileName))
        ext == [k \in DOMAIN sub |-> tolower(sub[k])]
    IN  IF pos = 0 THEN "Unknown"
        ELSE IF ext = <<"a", "n", "g">> THEN "Ang"
        ELSE IF ext = <<"o", "s", "c">> THEN "Osc"
        ELSE IF ext = <<"h", "d", "f">> THEN "Hdf"
        ELSE IF ext = <<"h", "d", "f", "5">> THEN "Hdf"
        ELSE IF ext = <<"h", "5">> THEN "Hdf"
        ELSE "Unknown"

\* OrientationMap::CanRead(fileName)
CanRead(fileName) == getFileType(fileName) = "Ang"

\* readAngDataMemMap(fileName, offset, tokens): the mapping is the whole
\* file, whose data section is f.data, followed in memory by pd.  With the
\* offset -1 of a failed stream the cursor starts one byte in front of the
\* mapping, which is undefined behaviour (that byte is not mapped, or is
\* whatever lies there), and bytesRead starts from 0; the header lines are
\* bytes of the mapping, each line a '#' and a newline
readAngDataMemMap(o, f, offset, tokens, ub, pd) ==
    IF offset < 0
    THEN MemMapLoop([o |-> o,
                     d |-> MemMapStart(o, offset, HeaderBytes(f) + Len(f.data), tokens)],
                    <<IF ub = "crash" THEN FAULT ELSE IF pd = <<>> THEN NUL ELSE pd[1]>>
                        \o [k \in 1..HeaderBytes(f) |-> IF k % 2 = 1 THEN "#" ELSE NL]
                        \o f.data \o pd, ub)
    ELSE MemMapLoop([o |-> o,
                     d |-> MemMapStart(o, offset, HeaderBytes(f) + Len(f.data), tokens)],
                    f.data \o pd, ub)

\* readAngData(is, tokens) on a stream positioned at the data section
readAngData(o, f, tokens, ub) ==
    StreamLoop([o |-> o, d |-> StreamStart(o, tokens)], f.data, ub)

\* "static const bool UseMemMap = true"
UseMemMap == TRUE

\* readAng from the return of the decoder s on
readAngReturn(s) ==
    IF s.d.status = "crash"
    THEN [o |-> s.o, err |-> Crash, pointsRead |-> 0, stage |-> "decode"]
    ELSE [o |-> s.o, err |-> NoError, pointsRead |-> s.d.pointsRead, stage |-> "returned"]

\* readAng from "allocate(tokenCount)" on, a being what allocate leaves
readAngDecode(a, f, offset, tokenCount, ub, pd) ==
    IF a.err # "none"
    THEN [o |-> a.o, err |-> Error(a.err, <<>>), pointsRead |-> 0, stage |-> "allocate"]
    ELSE readAngReturn(IF UseMemMap
                       THEN readAngDataMemMap(a.o, f, offset, tokenCount, ub, pd)
                       ELSE readAngData(a.o, f, tokenCount, ub))

\* readAng from the return of readAngHeader on, h being what it leaves
readAngAllocate(h, f, ub, pd) ==
    IF Failed(h.err)
    THEN [o |-> h.o, err |-> h.err, pointsRead |-> 0, stage |-> "header"]
    ELSE readAngDecode(allocate(h.o, h.tokenCount), f, h.tellg, h.tokenCount, ub, pd)

\* OrientationMap::readAng(fileName): the map as the call leaves it, the error
\* thrown if any, the number of points returned, and how far the call got
readAng(o, f, ub, pd) ==
    IF ~f.exists
    THEN [o |-> o, err |-> Error("ang file doesn't exist", <<>>), pointsRead |-> 0,
          stage |-> "open"]
    ELSE readAngAllocate(readAngHeader(o, f, ub), f, ub, pd)

\* "check that enough data was read", r being what the switch leaves
EnoughRead(r) ==
    IF Failed(r.err) THEN r
    ELSE IF r.pointsRead < Len(r.o.iq)
    THEN [r EXCEPT !.err = Error("file ended after reading",
                                 <<Number(r.pointsRead), Number(Len(r.o.iq))>>)]
    ELSE r

\* OrientationMap::read(fileName).  The switch has a single case: whatever
\* the file type, control reaches the default label, whose statement builds
\* a std::runtime_error and throws nothing.
read(o, f, ub, pd) ==
    EnoughRead(IF getFileType(f.name) = "Ang" THEN readAng(o, f, ub, pd)
               ELSE [o |-> o, err |-> NoError, pointsRead |-> 0, stage |-> "type"])

----------------------------------------------------------------------------
(* memorymap::File.  The system side is os: whether the file exists, its
   size, and the numbers of open file handles (descriptors), of open file
   mapping objects and of mapped views.  sys says which of the system calls
   of a construction succeed. *)

Hints == {"Normal", "Sequential", "Random"}

SysOutcomes == [open : BOOLEAN, size : BOOLEAN, map : BOOLEAN, view : BOOLEAN]

\* the error the constructor throws
MappingFailure == Error("couldn't be memory mapped", <<>>)

\* open(..., O_CREAT) and CreateFileA(..., CREATE_NEW) having succeeded: the
\* file is there, empty if it was not there before, and one more handle is open
Opened(os) ==
    [os EXCEPT !.exists = TRUE,
               !.bytes = IF os.exists THEN @ ELSE 0,
               !.handles = @ + 1]

\* close(fileId): only a descriptor that is open is closed
close(os, fileId) == IF fileId = "fd" THEN [os EXCEPT !.handles = @ - 1] ELSE os

\* CloseHandle(h) for the handle of a file or of a file mapping
CloseHandle(os, h) ==
    IF h = "handle" THEN [os EXCEPT !.handles = @ - 1]
    ELSE IF h = "map" THEN [os EXCEPT !.maps = @ - 1]
    ELSE os

\* munmap and UnmapViewOfFile
Unmap(os, fileBuffer) == IF fileBuffer = "view" THEN [os EXCEPT !.views = @ - 1] ELSE os

\* File::File, the branch for unix: the object, the system and the error
\* thrown.  fileId has no initialiser: it is "unset" when open is not reached
FileNix(os, write, size, sys) ==
    LET canWrite   == write
        sizeArg    == IF write THEN size ELSE 0
        fileExists == os.exists
        enter      == fileExists \/ (canWrite /\ sizeArg # 0)
        opened     == enter /\ sys.open
        error      == opened /\ sizeArg # 0 /\ ~sys.size
        resized    == opened /\ sizeArg # 0 /\ sys.size
        fileBytes  == IF opened /\ sizeArg = 0 THEN os.bytes ELSE sizeArg
        tried      == opened /\ ~error
        viewed     == tried /\ sys.map /\ fileBytes > 0
        fileId     == IF ~enter THEN "unset" ELSE IF opened THEN "fd" ELSE "-1"
        os1        == IF opened THEN Opened(os) ELSE os
        os2        == IF resized THEN [os1 EXCEPT !.bytes = sizeArg] ELSE os1
        os3        == IF viewed THEN [os2 EXCEPT !.views = @ + 1] ELSE os2
        obj        == [fileBuffer |-> IF viewed THEN "view"
                                      ELSE IF tried THEN "MAP_FAILED" ELSE "NULL",
                       fileBytes |-> fileBytes, canWrite |-> canWrite,
                       fileHandle |-> "NULL", fileMap |-> "NULL", fileId |-> fileId]
    IN  IF obj.fileBuffer \in {"NULL", "MAP_FAILED"}
        THEN [obj |-> obj,
              os  |-> IF fileId = "-1" THEN close(os3, fileId) ELSE os3,
              err |-> MappingFailure]
        ELSE [obj |-> obj, os |-> os3, err |-> NoError]

\* File::File, the branch for windows.  CreateFileA returns
\* INVALID_HANDLE_VALUE, not NULL, when it fails; the calls made on that
\* handle fail.  A file of no bytes cannot be mapped.
FileWin(os, write, size, sys) ==
    LET canWrite   == write
        sizeArg    == IF write THEN size ELSE 0
        fileExists == os.exists
        enter      == fileExists \/ (canWrite /\ sizeArg # 0)
        opened     == enter /\ sys.open
        sized      == opened /\ sys.size
        error      == enter /\ ~sized
        fileBytes  == IF sizeArg # 0 THEN sizeArg ELSE IF sized THEN os.bytes ELSE 0
        os1        == IF opened THEN Opened(os) ELSE os
        os2        == IF sized /\ sizeArg # 0 THEN [os1 EXCEPT !.bytes = sizeArg] ELSE os1
        hasMap     == enter /\ ~error /\ sys.map /\ os2.bytes > 0
        hasView    == hasMap /\ sys.view
        os3        == [os2 EXCEPT !.maps = @ + (IF hasMap THEN 1 ELSE 0),
                                  !.views = @ + (IF hasView THEN 1 ELSE 0)]
        obj        == [fileBuffer |-> IF hasView THEN "view" ELSE "NULL",
                       fileBytes |-> fileBytes, canWrite |-> canWrite,
                       fileHandle |-> IF ~enter THEN "NULL"
                                      ELSE IF opened THEN "handle"
                                      ELSE "INVALID_HANDLE_VALUE",
                       fileMap |-> IF hasMap THEN "map" ELSE "NULL",
                       fileId |-> "unset"]
    IN  IF enter /\ obj.fileBuffer = "NULL"
        THEN [obj |-> obj,
              os  |-> CloseHandle(CloseHandle(os3, obj.fileMap), obj.fileHandle),
              err |-> MappingFailure]
        ELSE [obj |-> obj, os |-> os3, err |-> NoError]

\* File::File that leaves the size of the file as it was
FileNoResize(build, os, hint, write, size, sys) ==
    LET f == IF build = "win" THEN FileWin(os, write, size, sys)
             ELSE FileNix(os, write, size, sys)
    IN  [f EXCEPT !.os.bytes = os.bytes]

\* File::File(fileName, hint, write, size), as the build compiles it; the
\* hint is passed to the system and decides nothing
File(build, os, hint, write, size, sys) ==
    IF build = "win" THEN FileWin(os, write, size, sys)
    ELSE FileNix(os, write, size, sys)

\* File::~File: the system after it
DestroyFile(build, os, obj) ==
    IF build = "win"
    THEN CloseHandle(CloseHandle(Unmap(os, obj.fileBuffer), obj.fileMap), obj.fileHandle)
    ELSE close(Unmap(os, obj.fileBuffer), obj.fileId)

----------------------------------------------------------------------------
(* Input files *)

\* the memory that follows a mapping: nothing mapped, the zero fill of the
\* last page, or bytes of a neighbouring mapping
Pads == {<<>>, <<NUL>>, <<NUL, NL>>, <<"7", NL>>}

UBOutcomes == {"crash", "silent"}

\* the text of field j of data line r: a digit other than 0
FieldChar(r, j) == DigitChars[((r + j) % 9) + 2]

RECURSIVE FieldsText(_, _, _)
FieldsText(r, j, n) ==
    IF j > n THEN <<>>
    ELSE IF j = n THEN <<FieldChar(r, j)>>
    ELSE <<FieldChar(r, j), SP>> \o FieldsText(r, j + 1, n)

\* a data line of n fields, ending in a carriage return when cr
LineText(shape, r) ==
    FieldsText(r, 1, shape.n) \o (IF shape.cr THEN <<CR>> ELSE <<>>)

RECURSIVE DataText(_, _, _)
DataText(shapes, r, finalNL) ==
    IF r > Len(shapes) THEN <<>>
    ELSE LineText(shapes[r], r)
         \o (IF r < Len(shapes) \/ finalNL THEN <<NL>> ELSE <<>>)
         \o DataText(shapes, r + 1, finalNL)

Regular(t) == [n |-> t, cr |-> FALSE]

\* the lines a data section may hold besides its regular ones: a blank line,
\* lines of fewer or more fields, a line ending in "\r\n"
OddShapes == {Regular(0), Regular(7), Regular(11), [n |-> 8, cr |-> TRUE]}

\* data sections of up to MaxLines lines of t fields, at most one of them odd
LineSeqs ==
    {[r \in 1..n |-> IF r = dev THEN odd ELSE Regular(t)] :
        n \in 0..MaxLines, t \in 8..11, dev \in 0..MaxLines, odd \in OddShapes}

DataSections == {DataText(ls, 1, nl) : ls \in LineSeqs, nl \in BOOLEAN}

GridTypes == {"Square", "Hexagonal"}

Geometries ==
    [gridType : GridTypes, nColsOdd : 0..MaxDim, nColsEven : 0..MaxDim, nRows : 0..MaxDim]

\* the header lines of the top level keys but omit, for the geometry g
TopLines(g, omit) ==
    LET value(key) ==
            CASE key = "GRID:"       -> <<Text(g.grid)>>
              [] key = "NCOLS_ODD:"  -> <<Number(g.nColsOdd)>>
              [] key = "NCOLS_EVEN:" -> <<Number(g.nColsEven)>>
              [] key = "NROWS:"      -> <<Number(g.nRows)>>
              [] key \in {"OPERATOR:", "SAMPLEID:", "SCANID:"} -> <<Text("id")>>
              [] OTHER -> <<Number(1)>>
        keep == SelectSeq(HeaderKeys, LAMBDA e : e.key # omit)
    IN  [k \in DOMAIN keep |-> [key |-> keep[k].key, val |-> value(keep[k].key)]]

Repeat(line, n) == [k \in 1..n |-> line]

\* the lines of phase block number num: the sub-keys but b.omit, a
\* NumberFamilies line declaring b.declared, b.families lines of hklFamilies
\* and b.rows lines of ElasticConstants
PhaseBlock(b, num) ==
    LET all == <<[key |-> "Phase", val |-> <<Number(num)>>],
                 [key |-> "MaterialName", val |-> <<Text("Ni")>>],
                 [key |-> "Formula", val |-> <<Text("Ni")>>],
                 [key |-> "Info", val |-> NoVal],
                 [key |-> "Symmetry", val |-> <<Number(43)>>],
                 [key |-> "LatticeConstants", val |-> <<Number(3)>>],
                 [key |-> "NumberFamilies", val |-> <<Number(b.declared)>>]>>
               \o Repeat([key |-> "hklFamilies", val |-> <<Number(1)>>], b.families)
               \o Repeat([key |-> "ElasticConstants", val |-> <<Number(1)>>], b.rows)
               \o <<[key |-> "Categories0", val |-> <<Number(0), Number(0)>>]>>
    IN  SelectSeq(all, LAMBDA l : l.key # b.omit)

RECURSIVE PhaseLines(_, _)
PhaseLines(blocks, k) ==
    IF k > Len(blocks) THEN <<>>
    ELSE PhaseBlock(blocks[k], k) \o PhaseLines(blocks, k + 1)

\* a complete phase block, with as many hklFamilies lines as declared
GoodBlock(families) ==
    [omit |-> "none", declared |-> families, families |-> families, rows |-> 6]

\* the blocks with one defect: a sub-key left out, fewer or more hklFamilies
\* lines than declared, five or seven rows of elastic constants
OddBlocks ==
    {[GoodBlock(1) EXCEPT !.omit = key] :
        key \in SimplePhaseKeys \cup {"NumberFamilies", "ElasticConstants", "Categories0"}}
    \cup {[GoodBlock(2) EXCEPT !.families = 1], [GoodBlock(1) EXCEPT !.families = 2],
          [GoodBlock(1) EXCEPT !.rows = 5], [GoodBlock(1) EXCEPT !.rows = 7]}

\* the phase sections of the header inputs: up to MaxPhases blocks, complete
\* but for at most one of them
PhaseSections ==
    {[k \in 1..n |-> IF k = dev THEN odd ELSE GoodBlock(fam)] :
        n \in 0..MaxPhases, dev \in 0..MaxPhases, fam \in 0..1, odd \in OddBlocks}

\* the geometry lines of the header inputs
SquareGrid(cols, rows) ==
    [grid |-> "SqrGrid", nColsOdd |-> cols, nColsEven |-> cols, nRows |-> rows]

\* header inputs: any phase section with every top level key or all but one
\* of them, and any one top level key left out of a header of complete
\* phases; a line of an unknown keyword (VERSION, or GRID without its colon),
\* a blank line, or a sub-key line ahead of the first Phase key may be added
ExtraLines ==
    {<<>>, <<[key |-> "", val |-> NoVal]>>, <<[key |-> "VERSION", val |-> <<Number(7)>>]>>,
     <<[key |-> "GRID", val |-> <<Text("SqrGrid")>>]>>,
     <<[key |-> "Formula", val |-> <<Text("Ni")>>]>>,
     <<[key |-> "ElasticConstants", val |-> <<Number(1)>>]>>}

\* the lines with the value of the line of key replaced by v
WithValue(lines, key, v) ==
    [k \in DOMAIN lines |-> IF lines[k].key = key THEN [lines[k] EXCEPT !.val = v]
                            ELSE lines[k]]

HeaderInputs ==
    {TopLines(SquareGrid(2, 2), omit) \o PhaseLines(ps, 1) :
        omit \in {"none", "NROWS:"}, ps \in PhaseSections}
    \cup {TopLines(SquareGrid(2, 2), omit) \o PhaseLines(ps, 1) :
            omit \in TopLevelKeys,
            ps \in {[k \in 1..n |-> GoodBlock(0)] : n \in 0..MaxPhases}}
    \cup {x \o TopLines(SquareGrid(2, 2), "none") \o PhaseLines(<<GoodBlock(0)>>, 1) \o y :
            x \in ExtraLines, y \in ExtraLines}
    \cup {WithValue(TopLines(SquareGrid(2, 2), "none"), key, v)
               \o PhaseLines(<<GoodBlock(0)>>, 1) :
            key \in {"XSTEP:", "GRID:", "NCOLS_ODD:", "SCANID:"}, v \in {NoVal, <<Text("x")>>}}

\* file names, as sequences of characters
FileNames ==
    {<<"s", ".", "a", "n", "g">>, <<"s", ".", "A", "N", "G">>,
     <<"s", ".", "o", "s", "c">>, <<"s", ".", "h", "d", "f">>,
     <<"s", ".", "H", "D", "F", "5">>, <<"s", ".", "h", "5">>,
     <<"s", ".", "t", "x", "t">>, <<"a", "n", "g">>,
     <<"s", ".", "a", "n", "g", ".", "t", "x", "t">>}

\* a data section of n lines of t fields; last says how it ends: with a
\* newline, without one, with "\r\n", or with an empty line after the last
DataEnding(n, t, last) ==
    CASE last = "nl"    -> DataText([r \in 1..n |-> Regular(t)], 1, TRUE)
      [] last = "none"  -> DataText([r \in 1..n |-> Regular(t)], 1, FALSE)
      [] last = "crlf"  -> DataText([r \in 1..n |-> IF r = n THEN [n |-> t, cr |-> TRUE]
                                                     ELSE Regular(t)], 1, TRUE)
      [] last = "blank" -> DataText([r \in 1..n |-> Regular(t)] \o <<Regular(0)>>, 1, TRUE)

Endings == {"nl", "none", "crlf", "blank"}

FourLines == DataEnding(4, 8, "nl")

\* a first data line longer than the line buffer: n fields, white space up to
\* the size of the buffer, and one more field
LongLine(n) ==
    FieldsText(1, 1, n) \o [k \in 1..(LineSize - 2 * n + 1) |-> SP]
        \o <<FieldChar(1, n + 1), NL>>

\* the data sections readAngHeader looks at behind a complete header: none,
\* a first line that is blank, first lines of 7 to 11 fields, ended by
\* "\n", by "\r\n" or by the end of the file, and first lines longer than
\* the line buffer
FirstLines ==
    {<<>>, <<NL>> \o FourLines, LongLine(7), LongLine(8)}
    \cup {DataEnding(2, t, last) : t \in 7..11, last \in {"nl", "none", "crlf"}}

\* the files read() is called on: every name, with the contents of a small
\* scan; and under the name s.ang, scans of several headers, grids and data
Files ==
    {[name |-> n, exists |-> TRUE,
      hdr |-> TopLines(SquareGrid(1, 1), "none"), data |-> DataEnding(1, 9, "nl")] :
        n \in FileNames}
    \cup
    {[name |-> <<"s", ".", "a", "n", "g">>, exists |-> e, hdr |-> h, data |-> FourLines] :
        e \in BOOLEAN,
        h \in {TopLines(SquareGrid(2, 2), "none") \o PhaseLines(<<GoodBlock(fam)>>, 1) :
                 fam \in 0..1}
              \cup {TopLines(SquareGrid(2, 2), "SCANID:"),
                    TopLines([SquareGrid(2, 2) EXCEPT !.grid = "TriGrid"], "none"),
                    TopLines([SquareGrid(2, 2) EXCEPT !.grid = "sqrgrid"], "none")}}
    \cup
    {[name |-> <<"s", ".", "a", "n", "g">>, exists |-> TRUE,
      hdr |-> TopLines(g, "none"), data |-> DataEnding(n, t, last)] :
        g \in {SquareGrid(2, 2),
               [grid |-> "HexGrid", nColsOdd |-> 2, nColsEven |-> 1, nRows |-> 2]},
        n \in {MaxLines - 1, MaxLines}, t \in {8, 10, 11}, last \in Endings}

----------------------------------------------------------------------------
(* State *)

VARIABLES
    pc,      \* what the program is doing
    om,      \* the OrientationMap read() is called on
    file,    \* the file being read
    res,     \* how the last call ended
    nreads,  \* number of read() calls made
    hdr,     \* the locals of readAngHeader
    mm,      \* the arrays and locals of readAngDataMemMap
    st,      \* the arrays and locals of readAngData
    pad,     \* the memory after the mapping, once it has been read
    mapped   \* the memorymap::File of a call, and the files the system holds

vars == <<pc, om, file, res, nreads, hdr, mm, st, pad, mapped>>

\* the values of the variables a specification does not use
NoFile == [name |-> <<>>, exists |-> FALSE, hdr |-> <<>>, data |-> <<>>]
NoResult == [err |-> NoError, pointsRead |-> 0, stage |-> "none"]
NoHeader == [h |-> HeaderFlags, err |-> NoError, tokenCount |-> 0, tellg |-> 0, k |-> 0]
NoDecoder == [o |-> OrientationMap(0), d |-> StreamStart(OrientationMap(0), 0)]

\* pad before the memory after the mapping has been read
Unread == <<"unread">>

\* mapped where no memorymap::File is followed
NoMapping == [build |-> "none"]

----------------------------------------------------------------------------
(* SpecDecode: the two decoders, each on its own copy of the arrays *)

\* the map as readAng leaves it before decoding: geometry set, arrays allocated
Allocated(g, tokens) ==
    allocate([OrientationMap(0) EXCEPT !.gridType = g.gridType,
                                        !.nColsOdd = g.nColsOdd,
                                        !.nColsEven = g.nColsEven,
                                        !.nRows = g.nRows], tokens).o

InitDecode ==
    \E g \in Geometries, bytes \in DataSections :
        LET tokens == FirstLineTokens(bytes)
            o == Allocated(g, tokens)
        IN  /\ tokens >= 8
            /\ pc = "decode"
            /\ om = o
            /\ file = [name |-> <<"s", ".", "a", "n", "g">>, exists |-> TRUE,
                       hdr |-> <<>>, data |-> bytes]
            /\ res = NoResult
            /\ nreads = 0
            /\ hdr = NoHeader
            /\ mm = [o |-> o,
                     d |-> MemMapStart(o, DecodeOffset, DecodeOffset + Len(bytes), tokens)]
            /\ st = [o |-> o, d |-> StreamStart(o, tokens)]
            /\ pad = Unread
            /\ mapped = NoMapping

\* one iteration of readAngData
StreamStep ==
    /\ pc = "decode"
    /\ StreamGuard(st.d)
    /\ \E ub \in (IF WritesOutside(st) THEN UBOutcomes ELSE {"silent"}) :
          st' = StreamIter(st, file.data, ub)
    /\ UNCHANGED <<pc, om, file, res, nreads, hdr, mm, pad, mapped>>

\* one iteration of readAngDataMemMap, once readAngData has returned
MemMapStep ==
    /\ pc = "decode"
    /\ ~StreamGuard(st.d)
    /\ MemMapGuard(mm.d)
    /\ \E ub \in (IF WritesOutside(mm) THEN UBOutcomes ELSE {"silent"}),
          pd \in (IF pad # Unread THEN {pad}
                  ELSE IF ReadsPastEnd(mm, file.data) THEN Pads ELSE {<<>>}) :
          /\ mm' = MemMapIter(mm, file.data \o pd, ub)
          /\ pad' = IF pad = Unread /\ ReadsPastEnd(mm, file.data) THEN pd ELSE pad
    /\ UNCHANGED <<pc, om, file, res, nreads, hdr, st, mapped>>

NextDecode == StreamStep \/ MemMapStep

SpecDecode == InitDecode /\ [][NextDecode]_vars

----------------------------------------------------------------------------
(* SpecHeader: readAngHeader, one header line per step *)

\* the maps readAngHeader may be called on: a new one, or one that has read
\* a scan of one phase before
UsedMap(fam) ==
    read(OrientationMap(0),
         [name |-> <<"s", ".", "a", "n", "g">>, exists |-> TRUE,
          hdr |-> TopLines(SquareGrid(1, 1), "none") \o PhaseLines(<<GoodBlock(fam)>>, 1),
          data |-> DataEnding(1, 9, "nl")],
         "crash", <<>>).o

\* the headers whose data section varies: complete, of no phase or of one
CompleteHeaders ==
    {TopLines(SquareGrid(2, 2), "none") \o PhaseLines(ps, 1) :
        ps \in {<<>>, <<GoodBlock(1)>>}}

InitHeader ==
    \E o \in {OrientationMap(u) : u \in Indeterminate} \cup {UsedMap(0), UsedMap(1)},
       h \in HeaderInputs :
        \E d \in (IF h \in CompleteHeaders THEN FirstLines \cup {FourLines}
                   ELSE {FourLines}) :
        /\ pc = "header"
        /\ om = o
        /\ file = [name |-> <<"s", ".", "a", "n", "g">>, exists |-> TRUE,
                   hdr |-> h, data |-> d]
        /\ res = NoResult
        /\ nreads = IF o.phaseList = <<>> THEN 0 ELSE 1
        /\ hdr = [NoHeader EXCEPT !.k = 1]
        /\ mm = NoDecoder
        /\ st = NoDecoder
        /\ pad = Unread
        /\ mapped = NoMapping

\* the locals of readAngHeader together with the map they belong to
HeaderState ==
    [o |-> om, h |-> hdr.h, err |-> hdr.err, tokenCount |-> hdr.tokenCount,
     tellg |-> hdr.tellg]

\* one iteration of the header loop: the next line starts with '#'
HeaderStep ==
    /\ pc = "header"
    /\ hdr.k <= Len(file.hdr)
    /\ \E ub \in (IF LineUndefined(HeaderState, file.hdr[hdr.k]) THEN UBOutcomes
                  ELSE {"silent"}) :
          LET s == HeaderLine(HeaderState, file.hdr[hdr.k], ub)
          IN  /\ om' = s.o
              /\ hdr' = [hdr EXCEPT !.h = s.h, !.err = s.err, !.k = @ + 1]
              /\ pc' = IF Failed(s.err) THEN "failed" ELSE "header"
    /\ UNCHANGED <<file, res, nreads, mm, st, pad, mapped>>

\* the next line does not start with '#': the checks after the loop
HeaderFinish ==
    /\ pc = "header"
    /\ hdr.k > Len(file.hdr)
    /\ LET s == HeaderEnd(HeaderState, file.data, HeaderBytes(file))
       IN  /\ hdr' = [hdr EXCEPT !.err = s.err, !.tokenCount = s.tokenCount,
                                 !.tellg = s.tellg]
           /\ pc' = IF Failed(s.err) THEN "failed" ELSE "returned"
    /\ UNCHANGED <<om, file, res, nreads, mm, st, pad, mapped>>

NextHeader == HeaderStep \/ HeaderFinish

SpecHeader == InitHeader /\ [][NextHeader]_vars

----------------------------------------------------------------------------
(* Spec: read() calls on one OrientationMap *)

Init ==
    /\ pc = "idle"
    /\ om \in {OrientationMap(u) : u \in Indeterminate}
    /\ file = NoFile
    /\ res = NoResult
    /\ nreads = 0
    /\ hdr = NoHeader
    /\ mm = NoDecoder
    /\ st = NoDecoder
    /\ pad = Unread
    /\ mapped = NoMapping

\* the ways read(f) can end on the map o: the one way r, unless the call
\* steps into undefined behaviour or reads the memory after the mapping
OutcomesBut(r, o, f) ==
    IF ~Crashed(r.err) THEN {r}
    ELSE {read(o, f, ub, pd) : ub \in UBOutcomes, pd \in Pads}

Outcomes(o, f) == OutcomesBut(read(o, f, "crash", <<>>), o, f)

\* om.read(f.name)
Read ==
    /\ pc = "idle"
    /\ nreads < MaxReads
    /\ \E f \in Files :
          \E r \in Outcomes(om, f) :
              /\ om' = r.o
              /\ res' = [err |-> r.err, pointsRead |-> r.pointsRead, stage |-> r.stage]
              /\ file' = f
              /\ pc' = IF Crashed(r.err) THEN "crashed" ELSE "idle"
    /\ nreads' = nreads + 1
    /\ UNCHANGED <<hdr, mm, st, pad, mapped>>

Next == Read

Spec == Init /\ [][Next]_vars

----------------------------------------------------------------------------
(* SpecAllocate: allocate(tokenCount) on a map as readAngHeader leaves it *)

\* the column and row counts a header may declare: small ones, and ones whose
\* sums and products do not fit a size_t
Dims == (0..MaxDim) \cup {SizeMod \div 2 - 1, SizeMod \div 2, SizeMod - 1}

\* the arrays allocate finds: those of a new map, or of an earlier scan
EarlierScans ==
    {OrientationMap(0),
     Allocated([gridType |-> "Square", nColsOdd |-> 2, nColsEven |-> 2, nRows |-> 2], 10)}

InitAllocate ==
    \E gt \in GridTypes \cup {"Unknown"}, odd \in Dims, even \in Dims, rows \in Dims,
       before \in EarlierScans :
        /\ pc = "allocate"
        /\ om = [before EXCEPT !.gridType = gt, !.nColsOdd = odd,
                               !.nColsEven = even, !.nRows = rows]
        /\ file = NoFile
        /\ res = NoResult
        /\ nreads = IF before.iq = <<>> THEN 0 ELSE 1
        /\ hdr = NoHeader
        /\ mm = NoDecoder
        /\ st = NoDecoder
        /\ pad = Unread
        /\ mapped = NoMapping

\* allocate(tokenCount), tokenCount being what readAngHeader returned
Allocate ==
    /\ pc = "allocate"
    /\ \E tokenCount \in 8..11 :
          LET a == allocate(om, tokenCount)
          IN  /\ om' = a.o
              /\ res' = [err |-> IF a.err = "none" THEN NoError ELSE Error(a.err, <<>>),
                         pointsRead |-> 0, stage |-> "allocate"]
              /\ hdr' = [hdr EXCEPT !.tokenCount = tokenCount]
              /\ pc' = IF a.err = "none" THEN "allocated" ELSE "failed"
    /\ UNCHANGED <<file, nreads, mm, st, pad, mapped>>

NextAllocate == Allocate

SpecAllocate == InitAllocate /\ [][NextAllocate]_vars

----------------------------------------------------------------------------
(* SpecMap: the life of one memorymap::File *)

Builds == {"nix", "win"}

\* the file before the call: not there, or there with 0..MaxBytes bytes
FilesOnDisk ==
    {[exists |-> FALSE, bytes |-> 0, handles |-> 0, maps |-> 0, views |-> 0]}
    \cup {[exists |-> TRUE, bytes |-> b, handles |-> 0, maps |-> 0, views |-> 0] :
             b \in 0..MaxBytes}

\* the object before its constructor has run
NoObject ==
    [fileBuffer |-> "NULL", fileBytes |-> 0, canWrite |-> FALSE,
     fileHandle |-> "NULL", fileMap |-> "NULL", fileId |-> "unset"]

\* no member function has been called yet
NoCall == [fn |-> "none", ptr |-> "none", n |-> 0, flag |-> FALSE, err |-> NoError,
           obj |-> NoObject,
           os |-> [exists |-> FALSE, bytes |-> 0, handles |-> 0, maps |-> 0, views |-> 0]]

InitMap ==
    \E build \in Builds, os \in FilesOnDisk, hint \in Hints, write \in BOOLEAN,
       size \in 0..MaxBytes :
        /\ pc = "construct"
        /\ om = OrientationMap(0)
        /\ file = NoFile
        /\ res = NoResult
        /\ nreads = 0
        /\ hdr = NoHeader
        /\ mm = NoDecoder
        /\ st = NoDecoder
        /\ pad = Unread
        /\ mapped = [build |-> build, os |-> os, before |-> os, obj |-> NoObject,
                     hint |-> hint, write |-> write, size |-> size,
                     sys |-> [open |-> TRUE, size |-> TRUE, map |-> TRUE, view |-> TRUE],
                     exit |-> "none", call |-> NoCall]

\* memorymap::File mapped(fileName, hint, write, size)
Construct ==
    /\ pc = "construct"
    /\ \E sys \in SysOutcomes :
          LET f == File(mapped.build, mapped.os, mapped.hint, mapped.write, mapped.size, sys)
          IN  /\ mapped' = [mapped EXCEPT !.os = f.os, !.obj = f.obj, !.sys = sys]
              /\ res' = [err |-> f.err, pointsRead |-> 0, stage |-> "map"]
              /\ pc' = IF Failed(f.err) THEN "failed" ELSE "mapped"
    /\ UNCHANGED <<om, file, nreads, hdr, mm, st, pad>>

\* the scope of the File is left, by a return or by an exception that passes
\* through it: ~File runs
Destroy ==
    /\ pc = "mapped"
    /\ \E exit \in {"return", "exception"} :
          mapped' = [mapped EXCEPT !.os = DestroyFile(mapped.build, mapped.os, mapped.obj),
                                   !.exit = exit]
    /\ pc' = "destroyed"
    /\ UNCHANGED <<om, file, res, nreads, hdr, mm, st, pad>>

\* the error data() throws
WriteToReadOnly == Error("write access to read only memory map isn't allowed", <<>>)

\* File::constData, File::size and File::writeAccess
constData(obj) == obj.fileBuffer
size(obj) == obj.fileBytes
writeAccess(obj) == obj.canWrite

\* File::data without its test of canWrite
dataUnchecked(obj) == [ptr |-> obj.fileBuffer, err |-> NoError]

\* File::data: the pointer returned, or the error thrown
data(obj) ==
    IF ~obj.canWrite THEN [ptr |-> "none", err |-> WriteToReadOnly]
    ELSE [ptr |-> obj.fileBuffer, err |-> NoError]

\* a member function is called on the constructed File; call keeps what it
\* returned or threw, and the object and the system as they were before it
CallData ==
    /\ pc = "mapped"
    /\ mapped' = [mapped EXCEPT !.call = [NoCall EXCEPT !.fn = "data",
                                                        !.ptr = data(mapped.obj).ptr,
                                                        !.err = data(mapped.obj).err,
                                                        !.obj = mapped.obj,
                                                        !.os = mapped.os]]
    /\ UNCHANGED <<pc, om, file, res, nreads, hdr, mm, st, pad>>

CallConstData ==
    /\ pc = "mapped"
    /\ mapped' = [mapped EXCEPT !.call = [NoCall EXCEPT !.fn = "constData",
                                                        !.ptr = constData(mapped.obj),
                                                        !.obj = mapped.obj,
                                                        !.os = mapped.os]]
    /\ UNCHANGED <<pc, om, file, res, nreads, hdr, mm, st, pad>>

CallSize ==
    /\ pc = "mapped"
    /\ mapped' = [mapped EXCEPT !.call = [NoCall EXCEPT !.fn = "size",
                                                        !.n = size(mapped.obj),
                                                        !.flag = writeAccess(mapped.obj),
                                                        !.obj = mapped.obj,
                                                        !.os = mapped.os]]
    /\ UNCHANGED <<pc, om, file, res, nreads, hdr, mm, st, pad>>

NextMap == Construct \/ CallData \/ CallConstData \/ CallSize \/ Destroy

SpecMap == InitMap /\ [][NextMap]_vars

----------------------------------------------------------------------------
(* SpecCanRead: OrientationMap::CanRead on a file name *)

\* every name of up to MaxName characters of "ang", "ANG" and '.', and the
\* longer names of Files
NamesTried ==
    UNION {[1..n -> {"a", "A", "n", "N", "g", "G", "."}] : n \in 0..MaxName}
        \cup FileNames

InitCanRead ==
    \E fileName \in NamesTried, o \in EarlierScans :
        /\ pc = "CanRead"
        /\ om = o
        /\ file = [NoFile EXCEPT !.name = fileName]
        /\ res = NoResult
        /\ nreads = 0
        /\ hdr = NoHeader
        /\ mm = NoDecoder
        /\ st = NoDecoder
        /\ pad = Unread
        /\ mapped = NoMapping

\* OrientationMap::CanRead(file.name): res keeps the answer and the type
CallCanRead ==
    /\ pc = "CanRead"
    /\ res' = [err |-> NoError, pointsRead |-> 0, stage |-> "CanRead",
               type |-> getFileType(file.name), can |-> CanRead(file.name)]
    /\ pc' = "answered"
    /\ UNCHANGED <<om, file, nreads, hdr, mm, st, pad, mapped>>

NextCanRead == CallCanRead

SpecCanRead == InitCanRead /\ [][NextCanRead]_vars

----------------------------------------------------------------------------
(* Properties of read(), stated on Spec *)

\* a read() call has been made and has come back, normally or by throwing
Called == nreads > 0 /\ pc = "idle"

\* C1: read() of a path whose extension is not ang (osc, hdf, hdf5, h5, any
\* other extension, none) fails with the unsupported file type error, on a
\* new map and on a used one; it never returns successfully
C1_UnsupportedTypeFails ==
    (Called /\ ~CanRead(file.name)) => res.err.msg = "unsupported file type"

\* the number of point records of a data section: its lines that hold a token
RECURSIVE RecordLines(_, _)
RecordLines(bytes, pos) ==
    LET g == getline(bytes, pos)
    IN  IF ~g.ok THEN 0
        ELSE (IF CountTokens(g.line, 0, FALSE) > 0 THEN 1 ELSE 0)
             + RecordLines(bytes, g.pos)

\* readAng has returned a point count to read()
Decoded == Called /\ res.stage = "returned"

\* C2: a data section of k records for a geometry of n points: read() fails
\* with "file ended after reading k of n" when k < n, and succeeds with n
\* points decoded when k = n
C2_TruncatedData ==
    Decoded =>
        LET k == RecordLines(file.data, 0)
            n == totalPointsOf(om)
        IN  /\ k < n => /\ res.err.msg = "file ended after reading"
                        /\ res.err.arg = <<Number(k), Number(n)>>
            /\ k = n => /\ ~Failed(res.err)
                        /\ res.pointsRead = n

\* C3: after every successful read, whatever was read into the map before,
\* x, y, iq, ci and phase have length totalPoints, eu has length
\* 3 * totalPoints, and sem and fit are each empty or of length totalPoints
C3_ArrayLengths ==
    (Decoded /\ ~Failed(res.err)) =>
        LET n == totalPointsOf(om)
        IN  /\ Len(om.x) = n /\ Len(om.y) = n /\ Len(om.iq) = n
            /\ Len(om.ci) = n /\ Len(om.phase) = n
            /\ Len(om.eu) = 3 * n
            /\ Len(om.sem) \in {0, n}
            /\ Len(om.fit) \in {0, n}

\* the number of white space delimited fields of the first line of bytes
FirstLineEnd(bytes) ==
    Min({p \in 1..Len(bytes) : bytes[p] = NL} \cup {Len(bytes) + 1})
FieldCount(bytes) ==
    Cardinality({p \in 1..(FirstLineEnd(bytes) - 1) :
                    /\ ~isspace(bytes[p])
                    /\ (p = 1 \/ isspace(bytes[p - 1]))})

\* the first read() of a new map has succeeded
FirstReadDone == Decoded /\ ~Failed(res.err) /\ nreads = 1

\* C13: on a new map, after a successful read, sem has length totalPoints if
\* the first data line has at least 9 fields and is empty otherwise, and fit
\* has length totalPoints if it has at least 10 and is empty otherwise; with
\* exactly 8 fields both are empty
C13_OptionalArrays ==
    FirstReadDone =>
        LET t == FieldCount(file.data)
            n == totalPointsOf(om)
        IN  /\ n > 0
            /\ Len(om.sem) = IF t >= 9 THEN n ELSE 0
            /\ Len(om.fit) = IF t >= 10 THEN n ELSE 0
            /\ t = 8 => om.sem = <<>> /\ om.fit = <<>>

\* a scan of nine fields a line has been read into a new map
C13_NineFieldsRead ==
    /\ FirstReadDone
    /\ FieldCount(file.data) = 9
    /\ Len(om.sem) = Len(om.iq) /\ om.sem # <<>>
    /\ om.fit = <<>>

----------------------------------------------------------------------------
(* Properties of the decoders, stated on SpecDecode *)

\* both decoders have returned
BothReturned ==
    /\ ~StreamGuard(st.d) /\ st.d.status # "crash"
    /\ ~MemMapGuard(mm.d) /\ mm.d.status # "crash"

\* C4: on the same bytes, geometry and token count, readAngData and
\* readAngDataMemMap return the same point count and leave eu, x, y, iq, ci,
\* phase, sem and fit with the same contents
C4_DecodersAgree ==
    BothReturned =>
        /\ st.d.pointsRead = mm.d.pointsRead
        /\ st.o.eu = mm.o.eu /\ st.o.x = mm.o.x /\ st.o.y = mm.o.y
        /\ st.o.iq = mm.o.iq /\ st.o.ci = mm.o.ci /\ st.o.phase = mm.o.phase
        /\ st.o.sem = mm.o.sem /\ st.o.fit = mm.o.fit

\* the width of row r, rows counted from zero: nColsEven for the rows reached
\* after an even number of toggles, nColsOdd for the others
RowWidth(o, r) == IF r % 2 = 0 THEN o.nColsEven ELSE o.nColsOdd

\* the records a row takes: the column counter of a row of width zero starts
\* from the largest size_t
RowRecords(o, r) == IF RowWidth(o, r) = 0 THEN SizeMod ELSE RowWidth(o, r)

\* the index of record k, records counted from zero within the rows from r
\* on, acc being the sum of the widths of the rows before r
RECURSIVE RowIndex(_, _, _, _)
RowIndex(o, k, r, acc) ==
    IF k < RowRecords(o, r)
    THEN (acc + RowWidth(o, r) + SizeMod - 1 - k) % SizeMod
    ELSE RowIndex(o, k - RowRecords(o, r), r + 1, (acc + RowWidth(o, r)) % SizeMod)

\* the records a decoder has taken up: those it counted, and the one it was
\* writing when the process ended
TakenUp(d) == d.pointsRead + (IF d.status = "crash" THEN 1 ELSE 0)

\* C9: in both decoders the traversal advances once per record and record k
\* goes to index acc + c, acc the sum of the widths of the completed rows, c
\* running from the row width - 1 down to 0, rows being nColsEven wide
\* before the first toggle and nColsOdd wide after an odd number of them; the
\* first record goes to index nColsEven - 1
C9_TraversalIndex ==
    /\ Len(st.d.idx) = TakenUp(st.d)
    /\ Len(mm.d.idx) = TakenUp(mm.d)
    /\ \A k \in DOMAIN st.d.idx : st.d.idx[k] = RowIndex(om, k - 1, 0, 0)
    /\ \A k \in DOMAIN mm.d.idx : mm.d.idx[k] = RowIndex(om, k - 1, 0, 0)
    /\ st.d.idx # <<>> => st.d.idx[1] = (om.nColsEven + SizeMod - 1) % SizeMod
    /\ mm.d.idx # <<>> => mm.d.idx[1] = (om.nColsEven + SizeMod - 1) % SizeMod

\* both decoders have gone through a row of two and into a row of one
C9_SecondRowReached ==
    /\ om.nColsEven = 2 /\ om.nColsOdd = 1
    /\ st.d.idx = <<1, 0, 2>> /\ st.d.pointsRead = 3
    /\ mm.d.idx = <<1, 0, 2>> /\ mm.d.pointsRead = 3

\* C10: the cursor of readAngDataMemMap never points past the end of the
\* mapping, whatever the file holds
C10_CursorInMapping == mm.d.offset + mm.d.data <= mm.d.fileBytes

\* C24: whatever the grid type, the dimensions and the bytes, every index
\* completeRowPoints + currentCol either decoder uses is smaller than
\* totalPoints, the length allocate gave the arrays
C24_IndexInsideArrays ==
    /\ \A k \in DOMAIN st.d.idx : st.d.idx[k] < Len(om.iq)
    /\ \A k \in DOMAIN mm.d.idx : mm.d.idx[k] < Len(om.iq)

\* the decoder s has counted exactly totalPoints records: each index
\* 0..totalPoints-1 was used once, and the traversal stands at the row
\* boundary after row nRows - 1
CoversArrays(s) ==
    (s.d.status = "run" /\ s.d.pointsRead = s.d.totalPoints) =>
        /\ {s.d.idx[k] : k \in DOMAIN s.d.idx} = 0..(s.d.totalPoints - 1)
        /\ s.d.completeRowPoints = s.d.totalPoints

\* C25: for Square and Hexagonal grids of all dimensions the widths of the
\* first nRows rows of the traversal sum to totalPoints: a decoder that has
\* decoded totalPoints records has written every index below totalPoints
\* once and stands at the row boundary after row nRows - 1
C25_TraversalMatchesAllocation == CoversArrays(st) /\ CoversArrays(mm)

\* C28: readAngDataMemMap counts a point only if it parsed its fields:
\* every iteration that increments pointsRead moves the cursor forward by at
\* least one byte, so trailing white space or blank lines add no points
C28_CountedPointsWereParsed ==
    [][mm'.d.pointsRead > mm.d.pointsRead => mm'.d.data > mm.d.data]_vars

\* the data section is lines lines of tokens fields each and nothing else:
\* its final newline may be missing
OnlyRegularLines(tokens, lines) ==
    /\ lines >= 1
    /\ Len(file.data) \in {2 * tokens * lines - 1, 2 * tokens * lines}
    /\ file.data = DataText([r \in 1..lines |-> Regular(tokens)], 1,
                            Len(file.data) = 2 * tokens * lines)

\* the decoder s has left its loop other than by the end of the process,
\* on a data section of more lines of s.d.tokens fields than the arrays
\* have points: it has counted totalPoints records, its cursor cur stands
\* no further than the end of line totalPoints, and what the arrays of
\* fields 4 to 8 hold was zero filled by allocate or comes from one of the
\* first totalPoints lines
KeepsFirstRecords(s, cur, running) ==
    LET tokens == s.d.tokens
        lines  == (Len(file.data) + 1) \div (2 * tokens)
        total  == s.d.totalPoints
    IN  (/\ ~running /\ s.d.status # "crash"
         /\ lines > total
         /\ OnlyRegularLines(tokens, lines)) =>
            /\ s.d.pointsRead = total
            /\ cur <= 2 * tokens * total
            /\ \A a \in {<<"x", 4>>, <<"y", 5>>, <<"iq", 6>>, <<"ci", 7>>, <<"phase", 8>>} :
                  \A i \in DOMAIN s.o[a[1]] :
                      s.o[a[1]][i] \in {0} \cup {DigitVal(FieldChar(k, a[2])) : k \in 1..total}

\* C31: both decoders stop as soon as totalPoints records are counted: the
\* count never exceeds totalPoints, no more than totalPoints records are
\* ever taken up, and a data section with surplus lines is decoded to the
\* end of its line totalPoints, the arrays holding nothing of a later line
C31_StopsAtTotalPoints ==
    /\ st.d.pointsRead <= st.d.totalPoints /\ mm.d.pointsRead <= mm.d.totalPoints
    /\ Len(st.d.idx) <= st.d.totalPoints /\ Len(mm.d.idx) <= mm.d.totalPoints
    /\ KeepsFirstRecords(st, st.d.pos, StreamGuard(st.d))
    /\ KeepsFirstRecords(mm, mm.d.data, MemMapGuard(mm.d))

\* both decoders have returned with two records of a section of three lines
\* of nine fields, the third line unread
C31_SurplusLineLeft ==
    /\ OnlyRegularLines(9, 3)
    /\ st.d.totalPoints = 2 /\ ~StreamGuard(st.d) /\ st.d.pointsRead = 2
    /\ st.d.pos = 36 /\ st.o.x = <<DigitVal(FieldChar(2, 4)), DigitVal(FieldChar(1, 4))>>
    /\ ~MemMapGuard(mm.d) /\ mm.d.pointsRead = 2 /\ mm.d.data = 35
    /\ mm.o.x = st.o.x

\* the step is one iteration of the loop of the decoder that was s and is
\* t: it is one of at most totalPoints, and it leaves the decoder in its
\* loop or returned, unless its index lies outside the arrays
BoundedIteration(s, t, outside) ==
    t # s =>
        /\ Len(t.d.idx) = Len(s.d.idx) + 1 \/ t.d.status = "eof"
        /\ Len(t.d.idx) <= t.d.totalPoints
        /\ t.d.status = "crash" => outside

\* C33: decoding a finite data section terminates with a count: every
\* iteration of either loop is one of at most totalPoints, and it finishes
\* within the data section: readAngData stands no further than its end,
\* and readAngDataMemMap has read no byte behind its last
C33_IterationsWithinInput ==
    [][/\ BoundedIteration(st, st', WritesOutside(st))
       /\ BoundedIteration(mm, mm', WritesOutside(mm))
       /\ st'.d.pos <= Len(file.data)
       /\ pad' = Unread]_vars

\* a data section of n lines of eleven fields each
ElevenFields(n, finalNL) == DataText([r \in 1..n |-> Regular(11)], 1, finalNL)

\* the bytes a line of eleven fields takes, its newline included
ElevenLine == Len(LineText(Regular(11), 1)) + 1

\* the offset of the first byte of line k of such a section
LineStart(k) == (k - 1) * ElevenLine

\* field j of line k of such a section
FieldOf(k, j) == DigitVal(FieldChar(k, j))

\* the last record s = [o, d] has counted is record k and went to an index
\* inside the arrays: they hold there the first ten fields of line k
HoldsLine(s, k) ==
    LET i == s.d.idx[k]
    IN  (s.d.pointsRead = k /\ InRange(s.o.iq, i)) =>
            /\ s.o.eu[3 * i + 1] = FieldOf(k, 1)
            /\ s.o.eu[3 * i + 2] = FieldOf(k, 2)
            /\ s.o.eu[3 * i + 3] = FieldOf(k, 3)
            /\ s.o.x[i + 1] = FieldOf(k, 4)
            /\ s.o.y[i + 1] = FieldOf(k, 5)
            /\ s.o.iq[i + 1] = FieldOf(k, 6)
            /\ s.o.ci[i + 1] = FieldOf(k, 7)
            /\ s.o.phase[i + 1] = FieldOf(k, 8)
            /\ s.o.sem[i + 1] = FieldOf(k, 9)
            /\ s.o.fit[i + 1] = FieldOf(k, 10)

\* C14: when every data line has more than 10 fields, record k takes its ten
\* fields from line k in both decoders and nothing from the fields after
\* the tenth: readAngData starts record k at the first byte of line k, and
\* readAngDataMemMap, having skipped to the end of line k - 1, starts it at
\* the newline that ends line k - 1
C14_ExtraFieldsSkipped ==
    \A n \in 1..MaxLines, finalNL \in BOOLEAN :
        (/\ Len(file.data) = n * ElevenLine - (IF finalNL THEN 0 ELSE 1)
         /\ file.data = ElevenFields(n, finalNL)) =>
            /\ Len(st.d.starts) <= n /\ Len(mm.d.starts) <= n
            /\ \A k \in DOMAIN st.d.starts :
                  st.d.starts[k] = LineStart(k) /\ HoldsLine(st, k)
            /\ \A k \in DOMAIN mm.d.starts :
                  /\ mm.d.starts[k] = IF k = 1 THEN 0 ELSE LineStart(k) - 1
                  /\ HoldsLine(mm, k)

\* both decoders have decoded the second of three lines of eleven fields
C14_SecondLongLineDecoded ==
    /\ file.data = ElevenFields(3, TRUE)
    /\ st.d.pointsRead = 2 /\ st.d.starts[2] = LineStart(2) /\ InRange(st.o.iq, st.d.idx[2])
    /\ mm.d.pointsRead = 2 /\ mm.d.starts[2] = LineStart(2) - 1
    /\ InRange(mm.o.iq, mm.d.idx[2])
    /\ mm.o.fit[mm.d.idx[2] + 1] = FieldOf(2, 10)

----------------------------------------------------------------------------
(* Properties of readAngHeader, stated on SpecHeader and read off the lines
   of the header rather than the flags of the parser *)

\* readAngHeader has returned, or has thrown
HeaderDone == pc \in {"returned", "failed"}

\* the positions of the Phase keys among the header lines
PhaseAt(lines) == {p \in DOMAIN lines : lines[p].key = "Phase"}

\* the lines of the phase block the Phase key at p opens: those after it, up
\* to the next Phase key or the end of the header
Block(lines, p) ==
    {q \in DOMAIN lines : q > p /\ \A r \in PhaseAt(lines) : r <= p \/ r > q}

\* the lines of that block whose key is one of keys
BlockLines(lines, p, keys) == {q \in Block(lines, p) : lines[q].key \in keys}

\* the hklFamilies lines the block supplies, and the count it first declares
Supplied(lines, p) == Cardinality(BlockLines(lines, p, {"hklFamilies"}))
Declares(lines, p) == BlockLines(lines, p, {"NumberFamilies"}) # {}
Declared(lines, p) == NumVal(lines[Min(BlockLines(lines, p, {"NumberFamilies"}))].val)

\* the Phase key of the last block, and of the block before line k
LastPhase(lines) == CHOOSE p \in PhaseAt(lines) : \A r \in PhaseAt(lines) : r <= p
PhaseBefore(lines, k) ==
    CHOOSE p \in PhaseAt(lines) : p < k /\ \A r \in PhaseAt(lines) : r < k => r <= p

\* the sub-fields a phase record must have, in the order they are tested,
\* with the message that names each
PhaseFields ==
    <<[keys |-> {"MaterialName"},     msg |-> "ang missing material name for phase"],
      [keys |-> {"Formula"},          msg |-> "ang missing formula for phase"],
      [keys |-> {"Info"},             msg |-> "ang missing info for phase"],
      [keys |-> {"Symmetry"},         msg |-> "ang missing symmetry for phase"],
      [keys |-> {"LatticeConstants"}, msg |-> "ang missing lattice constants for phase"],
      [keys |-> {"NumberFamilies"},   msg |-> "ang missing hkl families for phase"],
      [keys |-> {"ElasticConstants"}, msg |-> "ang missing elastic constants for phase"],
      [keys |-> CategoriesTokens,     msg |-> "ang missing categories for phase"]>>

\* the sub-fields the block at p lacks: no line of the key, or a number of
\* ElasticConstants rows other than six
Lacking(lines, p) ==
    {k \in DOMAIN PhaseFields :
        IF "ElasticConstants" \in PhaseFields[k].keys
        THEN Cardinality(BlockLines(lines, p, PhaseFields[k].keys)) # 6
        ELSE BlockLines(lines, p, PhaseFields[k].keys) = {}}

\* C5: a phase block whose number of hklFamilies lines differs from the count
\* its NumberFamilies line declares, be it fewer lines or more, makes
\* readAngHeader fail at the next Phase key or at the end of the header
C5_FamilyCountEnforced ==
    pc = "returned" =>
        \A p \in PhaseAt(file.hdr) :
            Declares(file.hdr, p) => Supplied(file.hdr, p) = Declared(file.hdr, p)

AtPhaseKeyLacking ==
    /\ pc = "header"
    /\ hdr.k \in PhaseAt(file.hdr)
    /\ \E p \in PhaseAt(file.hdr) : p < hdr.k
    /\ Lacking(file.hdr, PhaseBefore(file.hdr, hdr.k)) # {}

\* the step fails, appends no phase, and names field and number n
FailsNaming(n) ==
    /\ pc' = "failed"
    /\ om' = om
    /\ hdr'.err.msg = PhaseFields[Min(Lacking(file.hdr, PhaseBefore(file.hdr, hdr.k)))].msg
    /\ hdr'.err.arg = Counted(n)

\* C7: when a Phase key is read and the phase before it lacks a sub-field,
\* readAngHeader fails at that line before a new phase is appended, naming the
\* field and the 0-based index of the phase in the phase list
C7_NamesZeroBasedIndex ==
    [][AtPhaseKeyLacking => FailsNaming(Len(om.phaseList) - 1)]_vars

\* C7, as the code has it: the failure names the field and the length of the
\* phase list, which is the 0-based index of the phase plus one
C7_NamesListLength ==
    [][AtPhaseKeyLacking => FailsNaming(Len(om.phaseList))]_vars

\* the second Phase key has rejected a first phase that has no info
C7_PhaseKeyRejected ==
    /\ pc = "failed"
    /\ hdr.k - 1 \in PhaseAt(file.hdr)
    /\ Cardinality({p \in PhaseAt(file.hdr) : p < hdr.k - 1}) = 1
    /\ Len(om.phaseList) = 1
    /\ hdr.err.msg = "ang missing info for phase"
    /\ hdr.err.arg = Counted(1)

\* the mandatory top level keys as the header spells them, and their names
MandatoryKeys ==
    <<[key |-> "TEM_PIXperUM",    name |-> "TEM_PIXperUM"],
      [key |-> "x-star",          name |-> "x-star"],
      [key |-> "y-star",          name |-> "y-star"],
      [key |-> "z-star",          name |-> "z-star"],
      [key |-> "WorkingDistance", name |-> "WorkingDistance"],
      [key |-> "GRID:",           name |-> "GRID"],
      [key |-> "XSTEP:",          name |-> "XSTEP"],
      [key |-> "YSTEP:",          name |-> "YSTEP"],
      [key |-> "NCOLS_ODD:",      name |-> "NCOLS_ODD"],
      [key |-> "NCOLS_EVEN:",     name |-> "NCOLS_EVEN"],
      [key |-> "NROWS:",          name |-> "NROWS"],
      [key |-> "OPERATOR:",       name |-> "OPERATOR"],
      [key |-> "SAMPLEID:",       name |-> "SAMPLEID"],
      [key |-> "SCANID:",         name |-> "SCANID"]>>

\* the mandatory keys no line of the header has
Omitted(lines) ==
    {k \in DOMAIN MandatoryKeys :
        \A q \in DOMAIN lines : lines[q].key # MandatoryKeys[k].key}

\* a header of valid phases: every block complete, with as many hklFamilies
\* lines as declared, and nothing in the header but blank lines, mandatory
\* keys and phase blocks
ValidPhases(lines) ==
    /\ \A p \in PhaseAt(lines) :
          Lacking(lines, p) = {} /\ Supplied(lines, p) = Declared(lines, p)
    /\ \A q \in DOMAIN lines :
          \/ lines[q].key \in {""} \cup {MandatoryKeys[k].key : k \in DOMAIN MandatoryKeys}
          \/ lines[q].key = "Phase"
          \/ /\ \E p \in PhaseAt(lines) : q \in Block(lines, p)
             /\ lines[q].key \in {"hklFamilies"} \cup UNION {PhaseFields[k].keys : k \in DOMAIN PhaseFields}

----------------------------------------------------------------------------
(* Properties of allocate, stated on SpecAllocate *)

\* C11: for a Hexagonal grid allocate computes totalPoints =
\* floor(nRows / 2) * (nColsOdd + nColsEven), plus nColsOdd when nRows is odd,
\* for all non-negative nColsOdd, nColsEven and nRows
C11_HexagonalTotal ==
    (pc = "allocated" /\ om.gridType = "Hexagonal") =>
        Len(om.iq) = (om.nRows \div 2) * (om.nColsOdd + om.nColsEven)
                     + (IF om.nRows % 2 = 1 THEN om.nColsOdd ELSE 0)

\* C12: for a Square grid allocate computes totalPoints =
\* max(nColsOdd, nColsEven) * nRows for all inputs the size_t members can
\* hold: the product does not wrap around
C12_SquareTotal ==
    (pc = "allocated" /\ om.gridType = "Square") =>
        Len(om.iq) = Max(om.nColsOdd, om.nColsEven) * om.nRows

----------------------------------------------------------------------------
(* Properties of read() that rest on the header of the file *)

\* the text the last GRID: line of the header gives
GridText(lines) ==
    LET at == {q \in DOMAIN lines : lines[q].key = "GRID:"}
    IN  StrVal(lines[CHOOSE q \in at : \A r \in at : r <= q].val)

\* f is there, is an ang file, and has a complete header of valid phases
\* followed by a data line of at least 8 fields
WellFormed(f) ==
    /\ f.exists /\ CanRead(f.name)
    /\ Omitted(f.hdr) = {} /\ ValidPhases(f.hdr)
    /\ FieldCount(f.data) >= 8

\* the per-pixel arrays of a map
PixelArrays(o) == <<o.eu, o.x, o.y, o.iq, o.ci, o.phase, o.sem, o.fit>>

\* C15: a header whose GRID value is a text other than SqrGrid and HexGrid
\* gives the grid type Unknown, and read() then fails in allocate with "only
\* Square and Hexagonal grid types are supported", with no per-pixel array
\* resized and no record decoded.  The header is parsed first: on a map that
\* holds phases of an earlier read it may fail there instead.
C15_UnknownGridRejected ==
    [][(WellFormed(file') /\ GridText(file'.hdr) \notin {"SqrGrid", "HexGrid"}) =>
          /\ Failed(res'.err)
          /\ res'.stage \in {"header", "allocate"}
          /\ PixelArrays(om') = PixelArrays(om)
          /\ (res'.stage = "allocate" \/ om.phaseList = <<>>) =>
                /\ res'.stage = "allocate"
                /\ res'.err.msg = "only Square and Hexagonal grid types are supported"
                /\ om'.gridType = "Unknown"]_vars

\* a map that holds a scan has refused a file of grid type TriGrid
C15_TriGridRefused ==
    /\ Called /\ nreads = 2
    /\ WellFormed(file) /\ GridText(file.hdr) = "TriGrid"
    /\ res.stage = "allocate"
    /\ res.err.msg = "only Square and Hexagonal grid types are supported"
    /\ om.gridType = "Unknown"
    /\ Len(om.iq) = 4

----------------------------------------------------------------------------
(* Properties of the header grammar, stated on SpecHeader *)

\* the keys of the file format: the top level keys, Phase, and the sub-keys
\* of a phase, the categories key being followed by its first number
KnownKeys ==
    {"TEM_PIXperUM", "x-star", "y-star", "z-star", "WorkingDistance", "GRID:",
     "XSTEP:", "YSTEP:", "NCOLS_ODD:", "NCOLS_EVEN:", "NROWS:", "OPERATOR:",
     "SAMPLEID:", "SCANID:", "Phase", "MaterialName", "Formula", "Info",
     "Symmetry", "NumberFamilies", "LatticeConstants", "hklFamilies",
     "ElasticConstants", "Categories", "Categories0"}

\* the line about to be read is not blank and starts with no known key
AtUnknownKey ==
    /\ pc = "header"
    /\ hdr.k <= Len(file.hdr)
    /\ file.hdr[hdr.k].key \notin KnownKeys \cup {""}

\* C16: a header line that is not blank and whose first token is none of the
\* top level keys or phase sub-keys makes readAngHeader fail with "unknown
\* ang header keyword" naming the token, the map being left as it was; once
\* it has failed no further line is processed
C16_UnknownKeyRejected ==
    [][/\ pc # "failed"
       /\ AtUnknownKey =>
             /\ pc' = "failed"
             /\ hdr'.err.msg = "unknown ang header keyword"
             /\ hdr'.err.arg = Named(file.hdr[hdr.k].key)
             /\ om' = om]_vars

\* a GRID line without its colon, after 14 lines of a header, was rejected
C16_GridWithoutColon ==
    /\ pc = "failed"
    /\ hdr.k > 15
    /\ file.hdr[hdr.k - 1].key = "GRID"
    /\ hdr.err.msg = "unknown ang header keyword"
    /\ hdr.err.arg = Named("GRID")

\* readAngHeader has come to the end of a header of valid phases that has
\* every mandatory key, on a map that has read nothing before
ValidHeaderRead ==
    /\ HeaderDone /\ nreads = 0
    /\ hdr.k > Len(file.hdr)
    /\ Omitted(file.hdr) = {} /\ ValidPhases(file.hdr)

\* C17: after a valid header, a first data line of fewer than 8 fields, and
\* a data section that is empty, make readAngHeader fail with "unexpected
\* number of ang values per point" giving the number found; otherwise it
\* returns exactly the number of fields of that line
C17_TokenCount ==
    LET t == FieldCount(file.data)
    IN  /\ pc = "returned" => t >= 8 /\ hdr.tokenCount = t
        /\ ValidHeaderRead =>
              IF t < 8
              THEN /\ pc = "failed"
                   /\ hdr.err.msg = "unexpected number of ang values per point"
                   /\ hdr.err.arg = Counted(t)
              ELSE pc = "returned" /\ hdr.tokenCount = t

\* a Phase key has been read and has opened a phase record
InPhaseRecord ==
    /\ pc \in {"header", "returned"}
    /\ \E p \in PhaseAt(file.hdr) : p < hdr.k

\* the line about to be read is an ElasticConstants line of a phase record
AtElasticRow ==
    /\ pc = "header"
    /\ hdr.k <= Len(file.hdr)
    /\ file.hdr[hdr.k].key = "ElasticConstants"
    /\ InPhaseRecord

\* C18: within a phase record every ElasticConstants line is written to one
\* of the rows 0..5 of the 36 elastic constants of the phase, the row being
\* the value of the row counter when the line is read, and the counter never
\* exceeds 6, however many ElasticConstants lines the block has
C18_ElasticRowsBounded ==
    InPhaseRecord =>
        /\ hdr.h.phaseElasticCount <= 6
        /\ AtElasticRow => hdr.h.phaseElasticCount \in 0..5

\* the line about to be read starts with a phase sub-key: its branch of the
\* header loop takes phaseList.back()
AtSubKey ==
    /\ pc = "header"
    /\ hdr.k <= Len(file.hdr)
    /\ file.hdr[hdr.k].key \in SubKeys

\* C27: a phase sub-key line is applied only while a phase record exists:
\* whatever the order of the header lines, phaseList is not empty when the
\* parser takes its last element
C27_SubKeyNeedsPhase == AtSubKey => om.phaseList # <<>>

\* the value v of a key line can be read as the type of the key's member
Parses(type, v) == v # NoVal /\ (type = "num" => v[1].num)

\* what the value v, one that can be read, is as a member of the type
ValueOf(type, v) ==
    IF type = "num" THEN v[1].n
    ELSE IF type = "str" THEN v[1].s
    ELSE IF v[1].s = "SqrGrid" THEN "Square"
    ELSE IF v[1].s = "HexGrid" THEN "Hexagonal"
    ELSE "Unknown"

\* C29: whenever readAngHeader returns, each mandatory field holds a value
\* parsed from the line of its key in this header: a key line whose value is
\* missing or cannot be read does not count as seen, so no header with
\* such a line is accepted
C29_ValuesWereParsed ==
    pc = "returned" =>
        \A p \in DOMAIN file.hdr : \A k \in DOMAIN HeaderKeys :
            file.hdr[p].key = HeaderKeys[k].key =>
                /\ Parses(HeaderKeys[k].type, file.hdr[p].val)
                /\ om[HeaderKeys[k].field] = ValueOf(HeaderKeys[k].type, file.hdr[p].val)

\* C30: counting the tokens of the first data line consumes nothing: when
\* readAngHeader returns, the position of the stream, which readAng hands to
\* the decoder as the offset of its first record, is the offset of the first
\* line that does not start with '#'
C30_PeekConsumesNothing == pc = "returned" => hdr.tellg = HeaderBytes(file)

\* the header has a line of every mandatory top level key, and no line of
\* the Phase key, of a phase sub-key or of an unknown key
NoPhaseHeader ==
    /\ \A k \in DOMAIN HeaderKeys :
          \E q \in DOMAIN file.hdr : file.hdr[q].key = HeaderKeys[k].key
    /\ \A q \in DOMAIN file.hdr :
          \/ file.hdr[q].key = ""
          \/ \E k \in DOMAIN HeaderKeys : file.hdr[q].key = HeaderKeys[k].key

\* the messages of the checks of a phase
PhaseMessages ==
    {PhaseFields[k].msg : k \in DOMAIN PhaseFields}
        \cup {"ang missing some hkl families for phase"}

\* the flags of the phase sub-fields are all in the state f, the counts at n
PhaseFlagsAre(f, n) ==
    /\ hdr.h.readPhaseSymmetry = f /\ hdr.h.readPhaseMaterial = f
    /\ hdr.h.readPhaseFormula = f /\ hdr.h.readPhaseInfo = f
    /\ hdr.h.readPhaseLattice = f /\ hdr.h.readPhaseHkl = f
    /\ hdr.h.readPhaseCategories = f
    /\ hdr.h.phaseElasticCount = n

\* no phase check fails on a header without phases, and it leaves an empty
\* phaseList
C32_NoPhaseHeaderPasses ==
    NoPhaseHeader =>
        /\ PhaseFlagsAre(TRUE, 6)
        /\ hdr.err.msg \notin PhaseMessages
        /\ pc = "returned" => om.phaseList = <<>>

\* the line just read was a Phase key that passed its checks: the flags of
\* the sub-fields are reset
C32_FlagsResetAtPhase ==
    (pc = "header" /\ hdr.k > 1 /\ file.hdr[hdr.k - 1].key = "Phase") =>
        PhaseFlagsAre(FALSE, 0) /\ hdr.h.targetFamilies = 0

\* a header is accepted only if every phase block supplies the sub-fields
\* that are checked: all of them at the next Phase key, and all but the
\* ElasticConstants rows and the categories at the end of the header
C32_EachPhaseSupplies ==
    pc = "returned" =>
        \A p \in PhaseAt(file.hdr) :
            Lacking(file.hdr, p)
                \subseteq (IF p = LastPhase(file.hdr) THEN {7, 8} ELSE {})

\* C32: a header of all mandatory top level keys and no Phase key passes
\* the checks of the phases, the flags starting satisfied, and yields an
\* empty phaseList; a Phase key resets every phase flag, so that each phase
\* has to supply its own sub-fields
C32_PhaseFlags ==
    C32_NoPhaseHeaderPasses /\ C32_FlagsResetAtPhase /\ C32_EachPhaseSupplies

----------------------------------------------------------------------------
(* Properties of memorymap::File, stated on SpecMap *)

\* the constructor has thrown, or the destructor has run
Released == pc \in {"failed", "destroyed"} /\ mapped.build \in Builds

\* C19: on every exit path of a memorymap::File, be it destruction after a
\* return or after an exception, or a constructor that fails after the file
\* was opened, every file handle opened is closed and every mapping created
\* is unmapped: none remains once the constructor has failed or the
\* destructor has run
C19_NothingLeftOpen ==
    Released =>
        mapped.os.handles = 0 /\ mapped.os.maps = 0 /\ mapped.os.views = 0

\* C20: whenever the file cannot be opened, sized or mapped, a read-only
\* open of a file that is not there included, the constructor fails with
\* "couldn't be memory mapped": it never completes without a mapped view
C20_MappingFailure ==
    /\ (pc = "failed" /\ mapped.build \in Builds) => res.err = MappingFailure
    /\ (pc = "mapped" /\ mapped.build \in Builds) =>
          /\ mapped.obj.fileBuffer = "view"
          /\ mapped.os.views = 1

\* the constructor has completed with a view of the file
Open == pc = "mapped" /\ mapped.build \in Builds /\ mapped.obj.fileBuffer = "view"

\* C21: for a File that was opened, read-only: size() is the size the file
\* had, whatever the size argument, and the file keeps that size; writable
\* with size > 0: the file, created if it was not there, has size bytes and
\* size() = size; writable with size = 0: the file was there, keeps its size
\* and size() is that size
C21_SizeOfMapping ==
    Open =>
        /\ mapped.os.exists
        /\ ~mapped.write =>
              /\ mapped.before.exists
              /\ size(mapped.obj) = mapped.before.bytes
              /\ mapped.os.bytes = mapped.before.bytes
        /\ (mapped.write /\ mapped.size > 0) =>
              /\ size(mapped.obj) = mapped.size
              /\ mapped.os.bytes = mapped.size
        /\ (mapped.write /\ mapped.size = 0) =>
              /\ mapped.before.exists
              /\ size(mapped.obj) = mapped.before.bytes
              /\ mapped.os.bytes = mapped.before.bytes

\* a writable open with size 1 has created the file and given it 1 byte
C21_CreatedAndResized ==
    /\ Open
    /\ mapped.write /\ mapped.size = 1 /\ ~mapped.before.exists
    /\ mapped.os.bytes = 1 /\ size(mapped.obj) = 1

\* the File a member function was last called on is still alive
HasCalled(fn) == pc = "mapped" /\ mapped.build \in Builds /\ mapped.call.fn = fn

\* C22: data() returns the view exactly when the File was opened writable;
\* on a read-only File it throws "write access to read only memory map
\* isn't allowed" and leaves the object and the file as they were;
\* constData() and size() return the view and the size on every File
C22_DataNeedsWriteAccess ==
    /\ HasCalled("data") =>
          /\ mapped.obj = mapped.call.obj /\ mapped.os = mapped.call.os
          /\ IF mapped.write
             THEN mapped.call.err = NoError /\ mapped.call.ptr = mapped.obj.fileBuffer
             ELSE mapped.call.err = WriteToReadOnly /\ mapped.call.ptr = "none"
    /\ HasCalled("constData") =>
          /\ mapped.obj = mapped.call.obj /\ mapped.os = mapped.call.os
          /\ mapped.call.err = NoError /\ mapped.call.ptr = mapped.obj.fileBuffer
    /\ HasCalled("size") =>
          /\ mapped.obj = mapped.call.obj /\ mapped.os = mapped.call.os
          /\ mapped.call.err = NoError /\ mapped.call.n = mapped.obj.fileBytes
          /\ mapped.call.flag = mapped.write

\* data() has been called on a File opened read-only on a file of 2 bytes
C22_DataOnReadOnly ==
    /\ HasCalled("data") /\ Open
    /\ ~mapped.write /\ mapped.before.bytes = 2
    /\ mapped.call.err = WriteToReadOnly

----------------------------------------------------------------------------
(* Properties of CanRead, stated on SpecCanRead *)

\* the characters after the last '.' of name are "ang" in some mix of cases
EndsInDotAng(name) ==
    \E k \in DOMAIN name :
        /\ name[k] = "."
        /\ Len(name) = k + 3
        /\ name[k + 1] \in {"a", "A"}
        /\ name[k + 2] \in {"n", "N"}
        /\ name[k + 3] \in {"g", "G"}

\* C23: CanRead(path) is true exactly when the text after the last '.' of
\* path is "ang" in any mix of cases, so it is false for osc, hdf, hdf5 and
\* h5, for any other extension and for a path without '.'; the call leaves
\* the map as it was
C23_CanReadIsAngExtension ==
    [][pc = "CanRead" =>
          /\ res'.can <=> EndsInDotAng(file.name)
          /\ (\A k \in DOMAIN file.name : file.name[k] # ".") => ~res'.can
          /\ res'.type \in {"Osc", "Hdf", "Unknown"} => ~res'.can
          /\ om' = om /\ file' = file]_vars

\* CanRead has answered true for ".aNg" and the name had no stem
C23_MixedCaseAccepted ==
    /\ pc = "answered"
    /\ file.name = <<".", "a", "N", "g">>
    /\ res.can

----------------------------------------------------------------------------
(* Properties of read() over several calls, stated on Spec *)

\* the last read() was of an ang file and returned without an error
ReadSucceeded == Decoded /\ ~Failed(res.err) /\ CanRead(file.name)

\* C26: after every read() that succeeds, whatever reads were made before on
\* the same map, phaseList holds one record for each Phase key of the header
\* of the file just read, in the order of the file, and nothing else
C26_PhaseListOfLastFile ==
    ReadSucceeded =>
        /\ Len(om.phaseList) = Cardinality(PhaseAt(file.hdr))
        /\ \A p \in PhaseAt(file.hdr) :
              LET i == Cardinality({r \in PhaseAt(file.hdr) : r <= p})
              IN  om.phaseList[i].num = NumVal(file.hdr[p].val)

====
